---- MODULE Spec2Model ----
(***************************************************************************)
(* Classpresso: consolidation of repeated utility-class groups in a build. *)
(*                                                                         *)
(* A build is a list of artifacts.  An artifact is a path and a list of    *)
(* class-bearing sites; a site is the attribute syntax it is written in    *)
(* and the raw value between its delimiters, a list of space separated     *)
(* tokens.  The regular expressions of the scanner and of the rewriter are *)
(* modelled by the set of site syntaxes each of them matches.  Strings     *)
(* that the code inspects character by character carry their characters    *)
(* in the table Chars.                                                     *)
(***************************************************************************)
EXTENDS Integers, Sequences, FiniteSets, TLC

(***************************************************************************)
(* Generic sequence helpers                                                *)
(***************************************************************************)
Range(s) == {s[i] : i \in 1..Len(s)}

RECURSIVE SeqSum(_)
SeqSum(s) == IF s = <<>> THEN 0 ELSE Head(s) + SeqSum(Tail(s))

RECURSIVE Flatten(_)
Flatten(ss) == IF ss = <<>> THEN <<>> ELSE Head(ss) \o Flatten(Tail(ss))

\* [...new Set(list)]: first occurrence of every element, in order
RECURSIVE Dedupe(_)
Dedupe(s) ==
    IF s = <<>> THEN <<>>
    ELSE LET r == Dedupe(SubSeq(s, 1, Len(s) - 1))
             x == s[Len(s)]
         IN IF x \in Range(r) THEN r ELSE Append(r, x)

(***************************************************************************)
(* Characters and strings                                                  *)
(***************************************************************************)
\* the characters the model's strings use, in UTF-16 code unit order
CharOrder ==
    << " ", "$", "(", ")", "-", "0", "1", "2", "3", "4", "5", "6", "7", "8",
       "9", ":", "?", "_", "a", "b", "c", "d", "e", "f", "g", "h", "i", "j",
       "k", "l", "m", "n", "o", "p", "q", "r", "s", "t", "u", "v", "w", "x",
       "y", "z", "{", "}" >>

Code(ch) == CHOOSE i \in 1..Len(CharOrder) : CharOrder[i] = ch

LowerCase == {CharOrder[i] : i \in Code("a")..Code("z")}
Digit == {CharOrder[i] : i \in Code("0")..Code("9")}
\* \w of a regular expression, restricted to the characters in use
WordChar == LowerCase \cup Digit \cup {"_"}

\* the characters of every token of the model
Chars ==
    [ t \in {"flex", "items-center", "gap-2", "js-x", "${v}", "cn(x)", "c?a:b",
             "cp-00000", "cp-00001", "cp-00002", "cp-00003",
             "grid", "fab", "fab-x", "fa-x", "fabric-button"} |->
        CASE t = "flex"         -> <<"f", "l", "e", "x">>
          [] t = "grid"         -> <<"g", "r", "i", "d">>
          [] t = "fab"          -> <<"f", "a", "b">>
          [] t = "fab-x"        -> <<"f", "a", "b", "-", "x">>
          [] t = "fa-x"         -> <<"f", "a", "-", "x">>
          [] t = "fabric-button" -> <<"f", "a", "b", "r", "i", "c", "-", "b", "u", "t", "t", "o", "n">>
          [] t = "items-center" -> <<"i", "t", "e", "m", "s", "-", "c", "e", "n", "t", "e", "r">>
          [] t = "gap-2"        -> <<"g", "a", "p", "-", "2">>
          [] t = "js-x"         -> <<"j", "s", "-", "x">>
          [] t = "${v}"         -> <<"$", "{", "v", "}">>
          [] t = "cn(x)"        -> <<"c", "n", "(", "x", ")">>
          [] t = "c?a:b"        -> <<"c", "?", "a", ":", "b">>
          [] t = "cp-00000"     -> <<"c", "p", "-", "0", "0", "0", "0", "0">>
          [] t = "cp-00001"     -> <<"c", "p", "-", "0", "0", "0", "0", "1">>
          [] t = "cp-00002"     -> <<"c", "p", "-", "0", "0", "0", "0", "2">>
          [] t = "cp-00003"     -> <<"c", "p", "-", "0", "0", "0", "0", "3">> ]

Tokens == DOMAIN Chars

\* String.prototype.startsWith / endsWith on character lists
StartsWith(s, p) == Len(p) <= Len(s) /\ SubSeq(s, 1, Len(p)) = p
EndsWith(s, p) == Len(p) <= Len(s) /\ SubSeq(s, Len(s) - Len(p) + 1, Len(s)) = p
\* String.prototype.includes
Includes(s, p) == \E i \in 1..(Len(s) - Len(p) + 1) : SubSeq(s, i, i + Len(p) - 1) = p

\* s < t in code unit order (the default comparison of Array.prototype.sort)
RECURSIVE StrLess(_, _)
StrLess(s, t) ==
    IF t = <<>> THEN FALSE
    ELSE IF s = <<>> THEN TRUE
    ELSE IF Head(s) = Head(t) THEN StrLess(Tail(s), Tail(t))
    ELSE Code(Head(s)) < Code(Head(t))

\* tokens.join(' ') as characters
RECURSIVE JoinChars(_)
JoinChars(toks) ==
    IF toks = <<>> THEN <<>>
    ELSE IF Len(toks) = 1 THEN Chars[Head(toks)]
    ELSE Chars[Head(toks)] \o <<" ">> \o JoinChars(Tail(toks))

\* length of tokens.join(' ')
JoinLen(toks) == Len(JoinChars(toks))

(***************************************************************************)
(* Configuration (DEFAULT_CONFIG).  The lists are fixed to the defaults;   *)
(* the scalar options live in the variable config.                         *)
(***************************************************************************)
ExcludePrefixes ==
    << <<"j", "s", "-">>, <<"d", "a", "t", "a", "-">>,
       <<"h", "o", "o", "k", "-">>, <<"t", "r", "a", "c", "k", "-">> >>
ExcludeSuffixes ==
    << <<"-", "h", "a", "n", "d", "l", "e", "r">>,
       <<"-", "t", "r", "i", "g", "g", "e", "r">> >>
ExcludeClasses == << >>
\* the regular expressions /^qa-/, /^test-/, /^e2e-/, each by the prefix it anchors
ExcludePatterns ==
    << <<"q", "a", "-">>, <<"t", "e", "s", "t", "-">>, <<"e", "2", "e", "-">> >>

DEFAULT_DYNAMIC_PREFIXES ==
    << <<"l", "u", "c", "i", "d", "e">>,
       <<"h", "e", "r", "o", "i", "c", "o", "n">>,
       <<"i", "c", "o", "n", "-">>,
       <<"f", "a", "-">>,
       <<"f", "a", "s">>,
       <<"f", "a", "r">>,
       <<"f", "a", "b">>,
       <<"m", "a", "t", "e", "r", "i", "a", "l", "-", "i", "c", "o", "n", "s">>,
       <<"m", "d", "i", "-">>,
       <<"r", "i", "-">>,
       <<"b", "i", "-">>,
       <<"t", "a", "b", "l", "e", "r", "-">>,
       <<"p", "h", "o", "s", "p", "h", "o", "r", "-">> >>

(***************************************************************************)
(* File kinds (utils/files.ts)                                             *)
(***************************************************************************)
\* the extension of every path of the model
Ext ==
    [ p \in {"index.html", "app.js", "page.rsc", "lib.mjs", "main.css", "extra.css"} |->
        CASE p = "index.html" -> "html"
          [] p = "app.js"     -> "js"
          [] p = "page.rsc"   -> "rsc"
          [] p = "lib.mjs"    -> "mjs"
          [] p = "main.css"   -> "css"
          [] p = "extra.css"  -> "css" ]

isJSFile(filePath) == Ext[filePath] \in {"js", "mjs", "cjs"}
isCSSFile(filePath) == Ext[filePath] = "css"
isHTMLFile(filePath) == Ext[filePath] \in {"html", "htm"}
isRSCFile(filePath) == Ext[filePath] = "rsc"

\* the paths of the builds that the regular expression made from a glob
\* pattern matches: ** becomes .*, * becomes [^/]*, ? becomes . and the
\* expression is tested unanchored
GlobMatches(pattern) ==
    CASE pattern = "*.js"    -> {"app.js"}
      [] pattern = "page.*"  -> {"page.rsc"}
      [] pattern = "**/demo*" -> {}
      [] OTHER -> {}

shouldExcludeFile(filePath, excludePatterns) ==
    /\ Len(excludePatterns) > 0
    /\ \E i \in 1..Len(excludePatterns) : filePath \in GlobMatches(excludePatterns[i])

filterExcludedFiles(fileList, excludePatterns) ==
    IF Len(excludePatterns) = 0 THEN fileList
    ELSE SelectSeq(fileList, LAMBDA f : ~shouldExcludeFile(f.path, excludePatterns))

(***************************************************************************)
(* utils/regex.ts                                                          *)
(***************************************************************************)
\* the scanner's patterns, each named by the one site syntax it matches
ALL_CLASS_PATTERNS ==
    << "jsxDouble", "jsxSingle", "createElementDouble", "createElementSingle",
       "minifiedComma", "htmlDouble", "htmlSingle", "htmlEntityDouble",
       "htmlNumericDouble", "rscPayload" >>

\* className:`V ${..}`, className=`V ${..}`, class:`V ${..}`
DYNAMIC_BASE_PATTERNS ==
    << "templateDynamic", "templateDynamicJsx", "classTemplateDynamic" >>

\* className:"".concat("V", ..), className:''.concat('V', ..)
CONCAT_BASE_PATTERNS == << "concatDouble", "concatSingle" >>

Whitespace == {" "}

\* isDynamicClassString with the interpolation test only
isDynamicClassString_interpolationOnly(classString) ==
    Includes(JoinChars(classString), <<"$", "{">>)

isDynamicClassString(classString) ==
    LET s == JoinChars(classString)
        n == Len(s)
    IN  \/ Includes(s, <<"$", "{">>)
        \/ (Includes(s, <<"?">>) /\ Includes(s, <<":">>))
        \/ \E i \in 1..n : \E j \in (i + 1)..n :
              /\ s[i] \in WordChar
              /\ s[j] = "("
              /\ \A k \in (i + 1)..(j - 1) : s[k] \in Whitespace
        \/ /\ n > 0
           /\ s[1] \in LowerCase
           /\ \A k \in 2..n : s[k] \in LowerCase \cup Digit
           /\ ~Includes(s, <<"-">>)

\* the values of the sites of content that pattern matches, in file order
MatchesOf(content, pattern) ==
    LET hit(i) == content[i].syn = pattern
        RECURSIVE Go(_)
        Go(i) == IF i > Len(content) THEN <<>>
                 ELSE IF hit(i) THEN <<[val |-> content[i].val, line |-> i]>> \o Go(i + 1)
                 ELSE Go(i + 1)
    IN Go(1)

\* every match of every pattern of the list, pattern by pattern
RECURSIVE AllMatches(_, _)
AllMatches(content, patterns) ==
    IF patterns = <<>> THEN <<>>
    ELSE MatchesOf(content, Head(patterns)) \o AllMatches(content, Tail(patterns))

BaseStringsOf(content, patterns) ==
    LET ms == AllMatches(content, patterns)
        kept == SelectSeq(ms, LAMBDA m : m.val # <<>>)
    IN [i \in 1..Len(kept) |-> kept[i].val]

extractDynamicBaseStrings(content) == BaseStringsOf(content, DYNAMIC_BASE_PATTERNS)
extractConcatBaseStrings(content) == BaseStringsOf(content, CONCAT_BASE_PATTERNS)

(***************************************************************************)
(* core/scanner.ts                                                         *)
(***************************************************************************)
getSourceFileType(filePath) ==
    IF isHTMLFile(filePath) THEN "html"
    ELSE IF isRSCFile(filePath) THEN "rsc"
    ELSE "js"

shouldExcludeClass(className) ==
    LET c == Chars[className]
    IN  \/ \E i \in 1..Len(ExcludePrefixes) : StartsWith(c, ExcludePrefixes[i])
        \/ \E i \in 1..Len(ExcludeSuffixes) : EndsWith(c, ExcludeSuffixes[i])
        \/ className \in Range(ExcludeClasses)
        \/ \E i \in 1..Len(ExcludePatterns) : StartsWith(c, ExcludePatterns[i])

\* [...list].sort(): insertion of each token after the tokens not greater than it
RECURSIVE SortTokens(_)
SortTokens(list) ==
    IF list = <<>> THEN <<>>
    ELSE LET r == SortTokens(SubSeq(list, 1, Len(list) - 1))
             x == list[Len(list)]
             k == Cardinality({i \in 1..Len(r) : ~StrLess(Chars[x], Chars[r[i]])})
         IN SubSeq(r, 1, k) \o <<x>> \o SubSeq(r, k + 1, Len(r))

\* normalizeClassString without the sort of the included classes
normalizeClassString_unsorted(classString) ==
    LET includedClasses == SelectSeq(classString, LAMBDA cls : ~shouldExcludeClass(cls))
        excludedClasses == SelectSeq(classString, LAMBDA cls : shouldExcludeClass(cls))
    IN [ normalized |-> includedClasses,
         classes |-> includedClasses,
         excludedClasses |-> excludedClasses ]

normalizeClassString(classString) ==
    LET includedClasses == SelectSeq(classString, LAMBDA cls : ~shouldExcludeClass(cls))
        excludedClasses == SelectSeq(classString, LAMBDA cls : shouldExcludeClass(cls))
    IN [ normalized |-> SortTokens(includedClasses),
         classes |-> includedClasses,
         excludedClasses |-> excludedClasses ]

\* containsDynamicPrefix with startsWith for every prefix
containsDynamicPrefix_startsWith(classes, dynamicPrefixes) ==
    \E i \in 1..Len(classes) : \E j \in 1..Len(dynamicPrefixes) :
        StartsWith(Chars[classes[i]], dynamicPrefixes[j])

containsDynamicPrefix(classes, dynamicPrefixes) ==
    \E i \in 1..Len(classes) : \E j \in 1..Len(dynamicPrefixes) :
        LET cls == Chars[classes[i]]
            prefix == dynamicPrefixes[j]
        IN IF EndsWith(prefix, <<"-">>)
           THEN StartsWith(cls, prefix)
           ELSE cls = prefix \/ StartsWith(cls, prefix \o <<"-">>)

\* isHydrationSafe satisfied by either context alone
isHydrationSafe_either(occurrence) ==
    LET hasServerContext == "html" \in occurrence.sourceTypes \/ "rsc" \in occurrence.sourceTypes
        hasClientContext == "js" \in occurrence.sourceTypes
    IN hasServerContext \/ hasClientContext

isHydrationSafe(occurrence) ==
    LET hasServerContext == "html" \in occurrence.sourceTypes \/ "rsc" \in occurrence.sourceTypes
        hasClientContext == "js" \in occurrence.sourceTypes
    IN hasServerContext /\ hasClientContext

\* the loop of extractClassStrings over the matches: empty and dynamic values
\* are skipped, and so is a value this file has shown before
RECURSIVE ExtractLoop(_, _, _)
ExtractLoop(ms, seen, filePath) ==
    IF ms = <<>> THEN <<>>
    ELSE LET m == Head(ms)
         IN IF m.val = <<>> \/ isDynamicClassString(m.val) \/ m.val \in seen
            THEN ExtractLoop(Tail(ms), seen, filePath)
            ELSE <<[ classString |-> m.val,
                     location |-> [filePath |-> filePath, line |-> m.line] ]>>
                 \o ExtractLoop(Tail(ms), seen \cup {m.val}, filePath)

extractClassStrings(content, filePath) ==
    ExtractLoop(AllMatches(content, ALL_CLASS_PATTERNS), {}, filePath)

\* one base string of a script file (scanBuildOutput, the loop over allDynamicBases)
AddDynamicBase(patterns, baseString, filePath, minClasses) ==
    LET n == normalizeClassString(baseString)
        location == [filePath |-> filePath]
        at == {i \in 1..Len(patterns) : patterns[i].normalizedKey = n.normalized}
    IN IF Len(n.classes) < minClasses THEN patterns
       ELSE IF at # {}
       THEN LET i == CHOOSE k \in at : TRUE
            IN [patterns EXCEPT ![i].locations = Append(@, location)]
       ELSE Append(patterns, [ baseClasses |-> n.classes,
                               normalizedKey |-> n.normalized,
                               locations |-> <<location>> ])

RECURSIVE AddDynamicBases(_, _, _, _)
AddDynamicBases(patterns, baseStrings, filePath, minClasses) ==
    IF baseStrings = <<>> THEN patterns
    ELSE AddDynamicBases(AddDynamicBase(patterns, Head(baseStrings), filePath, minClasses),
                         Tail(baseStrings), filePath, minClasses)

\* AddOccurrence that stores the class string of the latest sighting
AddOccurrence_keepsLatest(occs, item, sourceType, cfg) ==
    LET n == normalizeClassString(item.classString)
        at == {i \in 1..Len(occs) : occs[i].normalizedKey = n.normalized}
    IN IF Len(n.classes) = 0 THEN occs
       ELSE IF Len(n.classes) < cfg.minClasses THEN occs
       ELSE IF cfg.excludeDynamicPatterns
               /\ containsDynamicPrefix(n.classes, cfg.dynamicPrefixes) THEN occs
       ELSE IF at # {}
       THEN LET i == CHOOSE k \in at : TRUE
            IN [occs EXCEPT ![i].count = @ + 1,
                            ![i].locations = Append(@, item.location),
                            ![i].sourceTypes = @ \cup {sourceType},
                            ![i].classString = item.classString,
                            ![i].excludedClasses = n.excludedClasses]
       ELSE Append(occs, [ classString |-> item.classString,
                           normalizedKey |-> n.normalized,
                           count |-> 1,
                           locations |-> <<item.location>>,
                           classes |-> n.classes,
                           excludedClasses |-> n.excludedClasses,
                           sourceTypes |-> {sourceType} ])

\* one extracted class string (scanBuildOutput, the loop over classStrings)
AddOccurrence(occs, item, sourceType, cfg) ==
    LET n == normalizeClassString(item.classString)
        at == {i \in 1..Len(occs) : occs[i].normalizedKey = n.normalized}
    IN IF Len(n.classes) = 0 THEN occs
       ELSE IF Len(n.classes) < cfg.minClasses THEN occs
       ELSE IF cfg.excludeDynamicPatterns
               /\ containsDynamicPrefix(n.classes, cfg.dynamicPrefixes) THEN occs
       ELSE IF at # {}
       THEN LET i == CHOOSE k \in at : TRUE
            IN [occs EXCEPT ![i].count = @ + 1,
                            ![i].locations = Append(@, item.location),
                            ![i].sourceTypes = @ \cup {sourceType}]
       ELSE Append(occs, [ classString |-> item.classString,
                           normalizedKey |-> n.normalized,
                           count |-> 1,
                           locations |-> <<item.location>>,
                           classes |-> n.classes,
                           excludedClasses |-> n.excludedClasses,
                           sourceTypes |-> {sourceType} ])

RECURSIVE AddOccurrences(_, _, _, _)
AddOccurrences(occs, items, sourceType, cfg) ==
    IF items = <<>> THEN occs
    ELSE AddOccurrences(AddOccurrence(occs, Head(items), sourceType, cfg),
                        Tail(items), sourceType, cfg)

\* the body of the scan loop for one file: what it leaves in the two maps
ScanDynamicBases(patterns, file, cfg) ==
    IF isJSFile(file.path)
    THEN AddDynamicBases(patterns,
                         extractDynamicBaseStrings(file.sites)
                            \o extractConcatBaseStrings(file.sites),
                         file.path, cfg.minClasses)
    ELSE patterns

ScanOccurrences(occs, file, cfg) ==
    AddOccurrences(occs, extractClassStrings(file.sites, file.path),
                   getSourceFileType(file.path), cfg)

\* scanFile with a catch that keeps what the failing file held
scanFile_keepsFailedFile(acc, file, cfg, fault) ==
    [ occurrences |-> ScanOccurrences(acc.occurrences, file, cfg),
      dynamicBasePatterns |-> ScanDynamicBases(acc.dynamicBasePatterns, file, cfg),
      errors |-> IF fault = "read" THEN Append(acc.errors, file.path) ELSE acc.errors ]

\* one turn of the loop of scanBuildOutput, its try and its catch: a file
\* whose read throws adds an error string and nothing else
scanFile(acc, file, cfg, fault) ==
    IF fault = "read"
    THEN [acc EXCEPT !.errors = Append(@, file.path)]
    ELSE [ occurrences |-> ScanOccurrences(acc.occurrences, file, cfg),
           dynamicBasePatterns |-> ScanDynamicBases(acc.dynamicBasePatterns, file, cfg),
           errors |-> acc.errors ]

(***************************************************************************)
(* utils/hash.ts and core/metrics.ts                                       *)
(***************************************************************************)
\* the synthetic names: hashPrefix 'cp-' and hashLength 5 characters
HashNames == << "cp-00000", "cp-00001", "cp-00002", "cp-00003" >>
HashSpace == Len(HashNames)

RECURSIVE CharSum(_)
CharSum(s) == IF s = <<>> THEN 0 ELSE Code(Head(s)) + CharSum(Tail(s))

\* a content hash of the normalized key, as one of the names
generateHashName(normalizedKey) ==
    HashNames[(CharSum(JoinChars(normalizedKey)) % HashSpace) + 1]

\* the first name from hashName on, in sequence, that is not in used
NextFreeName(hashName, used) ==
    LET at == CHOOSE i \in 1..HashSpace : HashNames[i] = hashName
        free == {d \in 0..(HashSpace - 1) : HashNames[((at - 1 + d) % HashSpace) + 1] \notin used}
    IN IF free = {} THEN hashName
       ELSE LET d == CHOOSE x \in free : \A y \in free : x <= y
            IN HashNames[((at - 1 + d) % HashSpace) + 1]

\* resolveCollisions that leaves every candidate its content hash
resolveCollisions_keepsHash(candidates) == candidates

\* a later candidate whose name is taken receives the next available one
RECURSIVE resolveCollisions(_)
resolveCollisions(candidates) ==
    IF candidates = <<>> THEN <<>>
    ELSE LET r == resolveCollisions(SubSeq(candidates, 1, Len(candidates) - 1))
             c == candidates[Len(candidates)]
             used == {r[i].hashName : i \in 1..Len(r)}
         IN Append(r, [c EXCEPT !.hashName = NextFreeName(c.hashName, used)])

CssRuleOverhead == 10
CssDeclOverhead == 5
calculatePatternCSSOverhead(classes) == CssRuleOverhead + CssDeclOverhead * Len(classes)

(***************************************************************************)
(* core/pattern-detector.ts                                                *)
(***************************************************************************)
calculateBytesSaved(original, hashName, frequency, excludedClasses) ==
    LET originalLength == JoinLen(original)
        excludedLength == JoinLen(excludedClasses)
        includedLength == originalLength - excludedLength
                            - (IF Len(excludedClasses) > 0 THEN 1 ELSE 0)
        newLength == Len(Chars[hashName])
        savingsPerOccurrence == includedLength - newLength
    IN savingsPerOccurrence * frequency

\* the filters of the loop without the minimum of bytes saved
IsSelected_noMinBytesSaved(occurrence, cfg) ==
    LET hashName == generateHashName(occurrence.normalizedKey)
        bytesSaved == calculateBytesSaved(occurrence.classString, hashName,
                                          occurrence.count, occurrence.excludedClasses)
    IN /\ ~(occurrence.count < cfg.minOccurrences)
       /\ ~(Len(occurrence.classes) < cfg.minClasses)
       /\ ~(cfg.ssr /\ ~isHydrationSafe(occurrence))
       /\ ~(cfg.skipPatternsWithExcludedClasses /\ Len(occurrence.excludedClasses) > 0)
       /\ (cfg.forceAll \/ ~(bytesSaved <= calculatePatternCSSOverhead(occurrence.classes)))

\* the filters of the loop of detectConsolidatablePatterns, on one occurrence
IsSelected(occurrence, cfg) ==
    LET hashName == generateHashName(occurrence.normalizedKey)
        bytesSaved == calculateBytesSaved(occurrence.classString, hashName,
                                          occurrence.count, occurrence.excludedClasses)
    IN /\ ~(occurrence.count < cfg.minOccurrences)
       /\ ~(Len(occurrence.classes) < cfg.minClasses)
       /\ ~(cfg.ssr /\ ~isHydrationSafe(occurrence))
       /\ ~(cfg.skipPatternsWithExcludedClasses /\ Len(occurrence.excludedClasses) > 0)
       /\ ~(bytesSaved < cfg.minBytesSaved)
       /\ (cfg.forceAll \/ ~(bytesSaved <= calculatePatternCSSOverhead(occurrence.classes)))

CandidateOf(occurrence) ==
    LET hashName == generateHashName(occurrence.normalizedKey)
    IN [ classString |-> occurrence.classString,
         normalizedKey |-> occurrence.normalizedKey,
         frequency |-> occurrence.count,
         bytesSaved |-> calculateBytesSaved(occurrence.classString, hashName,
                                            occurrence.count, occurrence.excludedClasses),
         classes |-> occurrence.classes,
         excludedClasses |-> occurrence.excludedClasses,
         hashName |-> hashName ]

\* resolved.sort((a, b) => b.bytesSaved - a.bytesSaved): a stable sort
RECURSIVE SortBySavings(_)
SortBySavings(list) ==
    IF list = <<>> THEN <<>>
    ELSE LET r == SortBySavings(SubSeq(list, 1, Len(list) - 1))
             x == list[Len(list)]
             k == Cardinality({i \in 1..Len(r) : r[i].bytesSaved >= x.bytesSaved})
         IN SubSeq(r, 1, k) \o <<x>> \o SubSeq(r, k + 1, Len(r))

detectConsolidatablePatterns(occs, cfg) ==
    LET kept == SelectSeq(occs, LAMBDA o : IsSelected(o, cfg))
        candidates == [i \in 1..Len(kept) |-> CandidateOf(kept[i])]
    IN SortBySavings(resolveCollisions(candidates))

(***************************************************************************)
(* core/consolidator.ts                                                    *)
(***************************************************************************)
createClassMappings(candidates) ==
    [i \in 1..Len(candidates) |->
        [ original |-> candidates[i].classString,
          consolidated |-> candidates[i].hashName,
          classes |-> candidates[i].classes,
          excludedClasses |-> candidates[i].excludedClasses,
          cssDeclarations |-> <<>>,
          frequency |-> candidates[i].frequency,
          bytesSaved |-> candidates[i].bytesSaved ]]

(***************************************************************************)
(* core/css-generator.ts                                                   *)
(*                                                                         *)
(* A stylesheet is a path, its rules in source order and the number of     *)
(* marker comments in it.  A rule is the class name that starts its        *)
(* selector, what follows it in the selector or wraps the rule             *)
(* ("" for a plain rule, ":hover", "@media") and its declarations.         *)
(***************************************************************************)
UTILITY_PROPERTY_MAP ==
    [ c \in {"flex", "grid", "items-center"} |->
        CASE c = "flex"         -> <<"display: flex">>
          [] c = "grid"         -> <<"display: grid">>
          [] c = "items-center" -> <<"align-items: center">> ]

\* the entries of spacingScale the model's tokens reach
spacingScale == [ v \in {<<"2">>} |-> "0.5rem" ]
\* the properties of parseSpacingUtility for the prefixes the tokens reach
spacingProperty == [ q \in {<<"g", "a", "p">>} |-> <<"gap">> ]

\* the place of the last "-" of a token, 0 when it has none
LastDash(c) ==
    LET at == {i \in 1..Len(c) : c[i] = "-"}
    IN IF at = {} THEN 0 ELSE CHOOSE i \in at : \A j \in at : j <= i

parseSpacingUtility(prefix, value) ==
    IF value \notin DOMAIN spacingScale THEN <<>>
    ELSE [i \in 1..Len(spacingProperty[prefix]) |->
            spacingProperty[prefix][i] \o ": " \o spacingScale[value]]

parseUtilityClass(className) ==
    LET c == Chars[className]
        d == LastDash(c)
        prefix == SubSeq(c, 1, d - 1)
        value == SubSeq(c, d + 1, Len(c))
    IN IF className \in DOMAIN UTILITY_PROPERTY_MAP THEN UTILITY_PROPERTY_MAP[className]
       ELSE IF d > 0 /\ prefix \in DOMAIN spacingProperty
                     /\ value # <<>> /\ \A i \in 1..Len(value) : value[i] \in Digit
       THEN parseSpacingUtility(prefix, value)
       ELSE <<>>

\* root.walkRules of one stylesheet: utilityMap.set(className, declarations)
RECURSIVE WalkRules(_, _)
WalkRules(utilityMap, rules) ==
    IF rules = <<>> THEN utilityMap
    ELSE LET rule == Head(rules)
             next == IF Len(rule.decls) > 0
                     THEN [c \in DOMAIN utilityMap \cup {rule.cls} |->
                              IF c = rule.cls THEN rule.decls ELSE utilityMap[c]]
                     ELSE utilityMap
         IN WalkRules(next, Tail(rules))

RECURSIVE extractUtilityCSS(_)
extractUtilityCSS(cssFiles) ==
    IF cssFiles = <<>> THEN [c \in {} |-> <<>>]
    ELSE LET before == extractUtilityCSS(SubSeq(cssFiles, 1, Len(cssFiles) - 1))
             f == cssFiles[Len(cssFiles)]
         IN IF isCSSFile(f.path) THEN WalkRules(before, f.rules) ELSE before

\* the declarations the loop over mapping.classes collects
RECURSIVE DeclarationsOf(_, _)
DeclarationsOf(classes, utilityMap) ==
    IF classes = <<>> THEN <<>>
    ELSE LET className == Head(classes)
             own == IF className \in DOMAIN utilityMap THEN utilityMap[className]
                    ELSE parseUtilityClass(className)
         IN own \o DeclarationsOf(Tail(classes), utilityMap)

\* generateConsolidatedCSS: the mappings as it leaves them
MappingsWithCSS(mappings, cssFiles) ==
    LET utilityMap == extractUtilityCSS(cssFiles)
    IN [i \in 1..Len(mappings) |->
          LET uniqueDeclarations == Dedupe(DeclarationsOf(mappings[i].classes, utilityMap))
          IN IF Len(uniqueDeclarations) > 0
             THEN [mappings[i] EXCEPT !.cssDeclarations = uniqueDeclarations]
             ELSE mappings[i]]

\* generateConsolidatedCSS: the rules of the text it returns
generateConsolidatedCSS(mappings, cssFiles) ==
    LET done == MappingsWithCSS(mappings, cssFiles)
        withRule == SelectSeq(done, LAMBDA m :
                        Len(Dedupe(DeclarationsOf(m.classes, extractUtilityCSS(cssFiles)))) > 0)
    IN [i \in 1..Len(withRule) |->
          [cls |-> withRule[i].consolidated, variant |-> "", decls |-> withRule[i].cssDeclarations]]

\* Buffer.byteLength of a stylesheet: selectors, declarations and markers
RECURSIVE DeclBytes(_)
DeclBytes(decls) == IF decls = <<>> THEN 0 ELSE Len(Head(decls)) + 2 + DeclBytes(Tail(decls))
RECURSIVE RulesBytes(_)
RulesBytes(rules) ==
    IF rules = <<>> THEN 0
    ELSE 1 + Len(Chars[Head(rules).cls]) + Len(Head(rules).variant) + 2
           + DeclBytes(Head(rules).decls) + RulesBytes(Tail(rules))
MarkerBytes == 38
StyleBytes(f) == RulesBytes(f.rules) + f.markers * MarkerBytes

\* the loop of injectConsolidatedCSS without the size comparison
InjectTarget_firstFile(cssFiles, i, targetFile, maxSize) ==
    IF \E k \in 1..Len(cssFiles) : cssFiles[k].markers > 0 THEN 0 ELSE 1

\* the loop of injectConsolidatedCSS: the target, or 0 when a stylesheet
\* already holds the marker
RECURSIVE InjectTarget(_, _, _, _)
InjectTarget(cssFiles, i, targetFile, maxSize) ==
    IF i > Len(cssFiles) THEN targetFile
    ELSE IF ~isCSSFile(cssFiles[i].path) THEN InjectTarget(cssFiles, i + 1, targetFile, maxSize)
    ELSE IF cssFiles[i].markers > 0 THEN 0
    ELSE IF StyleBytes(cssFiles[i]) > maxSize
         THEN InjectTarget(cssFiles, i + 1, i, StyleBytes(cssFiles[i]))
         ELSE InjectTarget(cssFiles, i + 1, targetFile, maxSize)

\* injectConsolidatedCSS without the check of cssFiles.length
injectThrows_never(cssFiles) == FALSE

\* injectConsolidatedCSS throws when the build has no stylesheet
injectThrows(cssFiles) == Len(cssFiles) = 0

\* injectConsolidatedCSS on a build that has a stylesheet
injectConsolidatedCSS(cssFiles, consolidatedCSS) ==
    LET targetFile == InjectTarget(cssFiles, 1, 1, 0)
    IN IF targetFile = 0 THEN cssFiles
       ELSE [cssFiles EXCEPT ![targetFile].rules = @ \o consolidatedCSS,
                             ![targetFile].markers = @ + 1]

(***************************************************************************)
(* core/transformer.ts                                                     *)
(***************************************************************************)
isSupersetOfDynamicBase(classes, dynamicBasePatterns) ==
    LET classSet == Range(classes)
    IN \E i \in 1..Len(dynamicBasePatterns) :
          LET pattern == dynamicBasePatterns[i]
              allBasePresent == \A k \in 1..Len(pattern.baseClasses) :
                                    pattern.baseClasses[k] \in classSet
          IN allBasePresent /\ Len(classes) > Len(pattern.baseClasses)

matchesDynamicBase(classes, dynamicBasePatterns) ==
    LET classSet == Range(classes)
    IN \E i \in 1..Len(dynamicBasePatterns) :
          LET pattern == dynamicBasePatterns[i]
          IN /\ ~(Len(classes) # Len(pattern.baseClasses))
             /\ \A k \in 1..Len(pattern.baseClasses) : pattern.baseClasses[k] \in classSet

\* the patterns of buildMatchPatterns, each by the one site syntax it matches
buildMatchPatterns ==
    << [syn |-> "jsxDouble",           supportsDataAttr |-> TRUE],
       [syn |-> "jsxSingle",           supportsDataAttr |-> TRUE],
       [syn |-> "createElementDouble", supportsDataAttr |-> FALSE],
       [syn |-> "createElementSingle", supportsDataAttr |-> FALSE],
       [syn |-> "templateStatic",      supportsDataAttr |-> FALSE],
       [syn |-> "templateDynamic",     supportsDataAttr |-> FALSE],
       [syn |-> "minifiedComma",       supportsDataAttr |-> FALSE],
       [syn |-> "htmlDouble",          supportsDataAttr |-> TRUE],
       [syn |-> "htmlSingle",          supportsDataAttr |-> TRUE],
       [syn |-> "htmlEntityDouble",    supportsDataAttr |-> TRUE],
       [syn |-> "htmlNumericDouble",   supportsDataAttr |-> TRUE] >>

\* the length of  data-cp-original="..."  around the joined class list
DataAttrFrame == 20

\* the matches the loop of replacePattern counts: for every pattern that
\* changed the length of the text, its matches in the text before the call
RECURSIVE CountReplacements(_, _, _, _, _, _)
CountReplacements(content, originalClasses, replacement, originalClassList, addDataAttributes, patterns) ==
    IF patterns = <<>> THEN 0
    ELSE LET p == Head(patterns)
             matches == Cardinality({i \in 1..Len(content) :
                            content[i].syn = p.syn /\ content[i].val = originalClasses})
             suffix == IF addDataAttributes /\ p.supportsDataAttr
                       THEN DataAttrFrame + JoinLen(originalClassList) ELSE 0
             lengthChanged == matches > 0
                              /\ JoinLen(replacement) + suffix # JoinLen(originalClasses)
         IN (IF lengthChanged THEN matches ELSE 0)
            + CountReplacements(content, originalClasses, replacement, originalClassList,
                                addDataAttributes, Tail(patterns))

replacePattern(content, originalClasses, consolidated, excludedClasses, originalClassList, addDataAttributes) ==
    LET replacement == IF Len(excludedClasses) > 0
                       THEN <<consolidated>> \o excludedClasses
                       ELSE <<consolidated>>
        hit(i) == {k \in 1..Len(buildMatchPatterns) :
                      /\ buildMatchPatterns[k].syn = content[i].syn
                      /\ content[i].val = originalClasses}
        result == [i \in 1..Len(content) |->
                     IF hit(i) = {} THEN content[i]
                     ELSE LET p == buildMatchPatterns[CHOOSE k \in hit(i) : TRUE]
                          IN [ syn |-> content[i].syn,
                               val |-> replacement,
                               data |-> IF addDataAttributes /\ p.supportsDataAttr
                                        THEN originalClassList ELSE content[i].data ]]
    IN [ content |-> result,
         replacements |-> CountReplacements(content, originalClasses, replacement,
                              originalClassList, addDataAttributes, buildMatchPatterns) ]

\* the patterns of findClassVariations, each by the site syntaxes it matches
classAttrPatterns ==
    << {"jsxDouble", "jsxSingle", "createElementDouble", "createElementSingle",
        "htmlDouble", "htmlSingle"},
       {"htmlEntityDouble"},
       {"htmlNumericDouble"},
       {"templateStatic"},
       {"templateDynamic", "classTemplateDynamic"} >>

\* variant of VariationsOf that accepts every value holding all the target
\* classes, without the comparison of the two lengths
VariationsOf_anySuperset(content, targetClasses, syntaxes) ==
    LET found == SelectSeq(content, LAMBDA site :
                    /\ site.syn \in syntaxes
                    /\ site.val # <<>>
                    /\ LET classes == normalizeClassString(site.val).classes
                       IN /\ Len(classes) >= Cardinality(targetClasses)
                          /\ \A targetClass \in targetClasses : targetClass \in Range(classes))
    IN [i \in 1..Len(found) |-> found[i].val]

\* the matches of one pattern of findClassVariations that equal the target
VariationsOf(content, targetClasses, syntaxes) ==
    LET found == SelectSeq(content, LAMBDA site :
                    /\ site.syn \in syntaxes
                    /\ site.val # <<>>
                    /\ LET classes == normalizeClassString(site.val).classes
                       IN /\ Len(classes) >= Cardinality(targetClasses)
                          /\ \A targetClass \in targetClasses : targetClass \in Range(classes)
                          /\ Len(classes) = Cardinality(targetClasses))
    IN [i \in 1..Len(found) |-> found[i].val]

findClassVariations(content, mapping) ==
    LET targetClasses == Range(mapping.classes)
    IN Dedupe(Flatten([k \in 1..Len(classAttrPatterns) |->
                          VariationsOf(content, targetClasses, classAttrPatterns[k])]))

\* the loop of transformFile over the variations of one mapping
RECURSIVE ReplaceVariations(_, _, _, _)
ReplaceVariations(acc, variations, mapping, cfg) ==
    IF variations = <<>> THEN acc
    ELSE LET r == replacePattern(acc.content, Head(variations), mapping.consolidated,
                                 mapping.excludedClasses, mapping.classes,
                                 cfg.dataAttributes)
         IN ReplaceVariations([acc EXCEPT !.content = r.content,
                                          !.replacements = @ + r.replacements],
                              Tail(variations), mapping, cfg)

\* the loop of transformFile over the mappings
RECURSIVE TransformLoop(_, _, _, _, _)
TransformLoop(acc, filePath, mappings, cfg, dynamicBasePatterns) ==
    IF mappings = <<>> THEN acc
    ELSE LET mapping == Head(mappings)
             isHTML == isHTMLFile(filePath)
             isJS == isJSFile(filePath)
             skip == /\ Len(dynamicBasePatterns) > 0
                     /\ \/ isHTML /\ isSupersetOfDynamicBase(mapping.classes, dynamicBasePatterns)
                        \/ isJS /\ matchesDynamicBase(mapping.classes, dynamicBasePatterns)
             next == IF skip
                     THEN [acc EXCEPT !.skippedForHydration = @ + 1]
                     ELSE ReplaceVariations(acc, findClassVariations(acc.content, mapping),
                                            mapping, cfg)
         IN TransformLoop(next, filePath, Tail(mappings), cfg, dynamicBasePatterns)

\* transformFile on a readable file: the text it computes and what it returns
transformFile(file, mappings, cfg, dynamicBasePatterns) ==
    LET done == TransformLoop([content |-> file.sites, replacements |-> 0,
                               skippedForHydration |-> 0],
                              file.path, mappings, cfg, dynamicBasePatterns)
    IN [ content |-> done.content,
         modified |-> done.content # file.sites,
         replacements |-> done.replacements,
         skippedForHydration |-> done.skippedForHydration ]

\* commitTransform with a catch that still reports the file as modified
commitTransform_countsFailedFile(file, result, cfg, dry, fault) ==
    LET throws == \/ fault = "read"
                  \/ /\ result.modified /\ ~dry
                     /\ (cfg.backup /\ fault = "backup") \/ fault = "write"
        written == result.modified /\ ~dry /\ ~throws
    IN [ sites |-> IF written THEN result.content ELSE file.sites,
         backup |-> cfg.backup /\ result.modified /\ ~dry /\ fault \notin {"read", "backup"},
         modified |-> result.modified,
         replacements |-> result.replacements,
         skippedForHydration |-> result.skippedForHydration,
         error |-> throws ]

\* commitTransform with the write not guarded by the dry-run flag
commitTransform_ignoresDryRun(file, result, cfg, dry, fault) ==
    IF fault = "none" /\ result.modified
    THEN [ sites |-> result.content, backup |-> cfg.backup, modified |-> TRUE,
           replacements |-> result.replacements,
           skippedForHydration |-> result.skippedForHydration, error |-> FALSE ]
    ELSE [ sites |-> file.sites, backup |-> FALSE, modified |-> FALSE,
           replacements |-> 0, skippedForHydration |-> 0, error |-> fault # "none" ]

\* the rest of transformFile: the backup, the write and the catch. fault is
\* the call on this file that throws: read, backup, write or none. What is
\* returned, what the file holds afterwards and whether a backup was made
commitTransform(file, result, cfg, dry, fault) ==
    LET caught == [ sites |-> file.sites, backup |-> FALSE, modified |-> FALSE,
                    replacements |-> 0, skippedForHydration |-> 0, error |-> TRUE ]
    IN IF fault = "read" THEN caught
       ELSE IF result.modified /\ ~dry
       THEN IF cfg.backup /\ fault = "backup" THEN caught
            ELSE IF fault = "write" THEN [caught EXCEPT !.backup = cfg.backup]
            ELSE [ sites |-> result.content, backup |-> cfg.backup, modified |-> TRUE,
                   replacements |-> result.replacements,
                   skippedForHydration |-> result.skippedForHydration, error |-> FALSE ]
       ELSE [ sites |-> file.sites, backup |-> FALSE, modified |-> result.modified,
              replacements |-> result.replacements,
              skippedForHydration |-> result.skippedForHydration, error |-> FALSE ]

(***************************************************************************)
(* config.ts and the option handling of the commands                       *)
(***************************************************************************)
validateConfig(cfg) ==
    (IF cfg.minOccurrences < 1 THEN <<"minOccurrences must be at least 1">> ELSE <<>>)
    \o (IF cfg.minClasses < 1 THEN <<"minClasses must be at least 1">> ELSE <<>>)
    \o (IF cfg.hashLength < 3 THEN <<"hashLength must be at least 3">> ELSE <<>>)
    \o (IF cfg.hashLength > 32 THEN <<"hashLength must be at most 32">> ELSE <<>>)
    \o (IF Len(cfg.hashPrefix) = 0 THEN <<"hashPrefix must not be empty">> ELSE <<>>)

\* optimizeCommand: the loaded configuration overridden with the options
optimizeConfig(loaded, options) ==
    [loaded EXCEPT !.minOccurrences = options.minOccurrences,
                   !.minClasses = options.minClasses,
                   !.backup = options.backup,
                   !.manifest = options.manifest]

\* analyzeCommand: the loaded configuration overridden with the options
analyzeConfig(loaded, options) ==
    [loaded EXCEPT !.minOccurrences = options.minOccurrences,
                   !.minClasses = options.minClasses,
                   !.ssr = options.ssr]

resolveConfig(command, loaded, options) ==
    IF command = "analyze" THEN analyzeConfig(loaded, options)
    ELSE optimizeConfig(loaded, options)

(***************************************************************************)
(* The optimize command (cli/optimize.ts) as a state machine               *)
(***************************************************************************)
VARIABLES
    command,              \* the command that was invoked: optimize or analyze
    options,              \* the command-line options, as commander hands them over
    later,                \* the command-line options of the next invocation
    loaded,               \* what loadConfig returned
    config,               \* the resolved configuration
    dryRun,               \* options.dryRun
    files,                \* the script, markup and server-fragment artifacts on disk
    styles,               \* the stylesheets on disk
    faults,               \* per path, the file-system call on it that throws
    backups,              \* the backup copies on disk
    pc,                   \* the step the command is at
    run,                  \* which invocation of the command this is
    scanIdx,              \* the file the scan loop is at
    occurrences,          \* scanResult.occurrences, in insertion order
    dynamicBasePatterns,  \* scanResult.dynamicBasePatterns, in insertion order
    scanErrors,           \* scanResult.errors, each by the path it names
    candidates,           \* what detectConsolidatablePatterns returned
    mappings,             \* what createClassMappings returned
    consolidatedCSS,      \* the rules of the generated stylesheet text
    txIdx,                \* the file the transform loop is at
    txLog,                \* what transformFile returned, file by file
    filesModified,        \* transformResult.filesModified
    bytesChanged,         \* transformResult.bytesChanged
    transformErrors,      \* transformResult.errors, each by the path it names
    manifest,             \* the mappings of the saved manifest, <<>> when none
    manifestSaved,        \* whether a manifest file is on disk
    atStart               \* files and styles as this invocation found them

\* a logger of createLogger (utils/logger.ts) and its calls in flight
VARIABLES
    debug,                \* options.debug of createLogger
    diskFails,            \* whether writeFile and appendFile may throw
    initialized,          \* the flag of the closure of createLogger
    logFile,              \* the lines of classpresso-debug.log, <<>> when there is none
    logCalls              \* per call of a logger method, where it stands

loggerVars == << debug, diskFails, initialized, logFile, logCalls >>

optimizeVars == << command, options, later, loaded, config, dryRun, files, styles, faults, backups, pc,
           run, scanIdx, occurrences, dynamicBasePatterns, scanErrors, candidates,
           mappings, consolidatedCSS, txIdx, txLog, filesModified, bytesChanged,
           transformErrors, manifest, manifestSaved, atStart >>

vars == << optimizeVars, loggerVars >>

\* what no step of a command changes
invocation == << command, options, later, loaded, config, dryRun, faults, run, atStart,
                 loggerVars >>

MaxRuns == 2

\* Step 1, one turn of the loop of scanBuildOutput over the files that are
\* left after filterExcludedFiles
ScanFile ==
    /\ pc = "scan"
    /\ LET scanned == filterExcludedFiles(files, config.excludeFiles)
       IN IF scanIdx > Len(scanned)
          THEN /\ pc' = "detect"
               /\ UNCHANGED << scanIdx, occurrences, dynamicBasePatterns, scanErrors >>
          ELSE LET file == scanned[scanIdx]
                   next == scanFile([ occurrences |-> occurrences,
                                      dynamicBasePatterns |-> dynamicBasePatterns,
                                      errors |-> scanErrors ],
                                    file, config, faults[file.path])
               IN /\ occurrences' = next.occurrences
                  /\ dynamicBasePatterns' = next.dynamicBasePatterns
                  /\ scanErrors' = next.errors
                  /\ scanIdx' = scanIdx + 1
                  /\ pc' = IF scanIdx = Len(scanned) THEN "detect" ELSE "scan"
    /\ UNCHANGED << invocation, files, styles, backups, candidates, mappings,
                    consolidatedCSS, txIdx, txLog, filesModified, bytesChanged,
                    transformErrors, manifest, manifestSaved >>

\* Step 2, with the return when nothing is selected; analyze ends here
Detect ==
    /\ pc = "detect"
    /\ candidates' = detectConsolidatablePatterns(occurrences, config)
    /\ pc' = IF command = "analyze" \/ Len(candidates') = 0 THEN "done" ELSE "mappings"
    /\ UNCHANGED << invocation, files, styles, backups, scanIdx, occurrences,
                    dynamicBasePatterns, scanErrors, mappings, consolidatedCSS,
                    txIdx, txLog, filesModified, bytesChanged, transformErrors,
                    manifest, manifestSaved >>

\* Step 3
CreateMappings ==
    /\ pc = "mappings"
    /\ mappings' = createClassMappings(candidates)
    /\ pc' = "css"
    /\ UNCHANGED << invocation, files, styles, backups, scanIdx, occurrences,
                    dynamicBasePatterns, scanErrors, candidates, consolidatedCSS,
                    txIdx, txLog, filesModified, bytesChanged, transformErrors,
                    manifest, manifestSaved >>

\* Step 4
GenerateCSS ==
    /\ pc = "css"
    /\ consolidatedCSS' = generateConsolidatedCSS(mappings, styles)
    /\ mappings' = MappingsWithCSS(mappings, styles)
    /\ pc' = "transform"
    /\ UNCHANGED << invocation, files, styles, backups, scanIdx, occurrences,
                    dynamicBasePatterns, scanErrors, candidates, txIdx, txLog,
                    filesModified, bytesChanged, transformErrors, manifest,
                    manifestSaved >>

\* Step 5, one turn of the loop of transformBuildOutput, which runs over all
\* the files findFiles returns
TransformFile ==
    /\ pc = "transform"
    /\ txIdx <= Len(files)
    /\ LET file == files[txIdx]
           result == commitTransform(file,
                         transformFile(file, mappings, config, dynamicBasePatterns),
                         config, dryRun, faults[file.path])
       IN /\ files' = [files EXCEPT ![txIdx].sites = result.sites]
          /\ backups' = IF result.backup
                        THEN {b \in backups : b.path # file.path}
                               \cup {[path |-> file.path, sites |-> file.sites]}
                        ELSE backups
          /\ txLog' = Append(txLog, [ path |-> file.path,
                                      modified |-> result.modified,
                                      replacements |-> result.replacements,
                                      skippedForHydration |-> result.skippedForHydration ])
          /\ transformErrors' = IF result.error THEN Append(transformErrors, file.path)
                                ELSE transformErrors
          /\ filesModified' = IF result.modified THEN filesModified + 1 ELSE filesModified
          /\ bytesChanged' = IF result.modified
                             THEN bytesChanged + result.replacements * 10
                             ELSE bytesChanged
    /\ txIdx' = txIdx + 1
    /\ pc' = IF txIdx = Len(files) THEN "inject" ELSE "transform"
    /\ UNCHANGED << invocation, styles, scanIdx, occurrences, dynamicBasePatterns,
                    scanErrors, candidates, mappings, consolidatedCSS, manifest,
                    manifestSaved >>

\* Step 6; without a stylesheet injectConsolidatedCSS throws and the command exits
InjectCSS ==
    /\ pc = "inject"
    /\ styles' = IF ~dryRun /\ ~injectThrows(styles)
                 THEN injectConsolidatedCSS(styles, consolidatedCSS)
                 ELSE styles
    /\ pc' = IF ~dryRun /\ injectThrows(styles) THEN "failed" ELSE "manifest"
    /\ UNCHANGED << invocation, files, backups, scanIdx, occurrences,
                    dynamicBasePatterns, scanErrors, candidates, mappings,
                    consolidatedCSS, txIdx, txLog, filesModified, bytesChanged,
                    transformErrors, manifest, manifestSaved >>

\* Steps 7 and 8
SaveManifest ==
    /\ pc = "manifest"
    /\ manifest' = IF ~dryRun /\ config.manifest THEN mappings ELSE manifest
    /\ manifestSaved' = IF ~dryRun /\ config.manifest THEN TRUE ELSE manifestSaved
    /\ pc' = "done"
    /\ UNCHANGED << invocation, files, styles, backups, scanIdx, occurrences,
                    dynamicBasePatterns, scanErrors, candidates, mappings,
                    consolidatedCSS, txIdx, txLog, filesModified, bytesChanged,
                    transformErrors >>

\* the command is invoked again, with the same options, on what the previous
\* invocation left on disk
Rerun ==
    /\ pc = "done"
    /\ run < MaxRuns
    /\ run' = run + 1
    /\ pc' = "scan"
    /\ scanIdx' = 1
    /\ occurrences' = <<>>
    /\ dynamicBasePatterns' = <<>>
    /\ scanErrors' = <<>>
    /\ candidates' = <<>>
    /\ mappings' = <<>>
    /\ consolidatedCSS' = <<>>
    /\ txIdx' = 1
    /\ txLog' = <<>>
    /\ filesModified' = 0
    /\ bytesChanged' = 0
    /\ transformErrors' = <<>>
    /\ atStart' = [files |-> files, styles |-> styles]
    /\ options' = later
    /\ config' = resolveConfig(command, loaded, later)
    /\ dryRun' = later.dryRun
    /\ UNCHANGED << command, later, loaded, files, styles, faults, backups, manifest,
                    manifestSaved, loggerVars >>

Next ==
    \/ ScanFile
    \/ Detect
    \/ CreateMappings
    \/ GenerateCSS
    \/ TransformFile
    \/ InjectCSS
    \/ SaveManifest
    \/ Rerun

(***************************************************************************)
(* The debug logger (utils/logger.ts) as a state machine                   *)
(***************************************************************************)
MaxCalls == 3
Calls == 1..MaxCalls

\* the header writeToLog initialises the file with, and the entry of a call
HeaderLine == [kind |-> "header", call |-> 0]
EntryLine(c) == [kind |-> "entry", call |-> c]

\* the outcomes of a call of fs/promises: it resolves, or it rejects
FsOutcomes == IF diskFails THEN {"resolves", "rejects"} ELSE {"resolves"}

\* a method of the logger is called and runs up to its first await: without
\* debug it returns; in writeToLog it finds initialized false and calls
\* writeFile, or finds it true and calls appendFile
LogCall(c) ==
    /\ logCalls[c] = "idle"
    /\ logCalls' = [logCalls EXCEPT ![c] = IF ~debug THEN "returned"
                                          ELSE IF ~initialized THEN "writeFile"
                                          ELSE "appendFile"]
    /\ UNCHANGED << optimizeVars, debug, diskFails, initialized, logFile >>

\* writeFile(logPath, header) of a call takes effect: the file holds the
\* header and nothing else, or the call rejects and the catch returns
WriteFile(c) ==
    /\ logCalls[c] = "writeFile"
    /\ \E outcome \in FsOutcomes :
          IF outcome = "resolves"
          THEN /\ logFile' = <<HeaderLine>>
               /\ logCalls' = [logCalls EXCEPT ![c] = "wroteHeader"]
          ELSE /\ logCalls' = [logCalls EXCEPT ![c] = "caught"]
               /\ UNCHANGED logFile
    /\ UNCHANGED << optimizeVars, debug, diskFails, initialized >>

\* the call resumes after await writeFile: initialized = true, then it calls
\* appendFile
Resume(c) ==
    /\ logCalls[c] = "wroteHeader"
    /\ initialized' = TRUE
    /\ logCalls' = [logCalls EXCEPT ![c] = "appendFile"]
    /\ UNCHANGED << optimizeVars, debug, diskFails, logFile >>

\* appendFile(logPath, content) of a call takes effect and the call returns,
\* or it rejects and the catch returns
AppendFile(c) ==
    /\ logCalls[c] = "appendFile"
    /\ \E outcome \in FsOutcomes :
          IF outcome = "resolves"
          THEN /\ logFile' = Append(logFile, EntryLine(c))
               /\ logCalls' = [logCalls EXCEPT ![c] = "returned"]
          ELSE /\ logCalls' = [logCalls EXCEPT ![c] = "caught"]
               /\ UNCHANGED logFile
    /\ UNCHANGED << optimizeVars, debug, diskFails, initialized >>

LoggerNext ==
    \E c \in Calls :
        \/ LogCall(c)
        \/ WriteFile(c)
        \/ Resume(c)
        \/ AppendFile(c)

(***************************************************************************)
(* The builds optimize is started on                                       *)
(***************************************************************************)
MaxMarkupSites == 3
MaxScriptSites == 2
MaxFragmentSites == 1
MaxRules == 3

SeqsUpTo(S, n) == UNION {[1..k -> S] : k \in 0..n}

Site(syn, val) == [syn |-> syn, val |-> val, data |-> <<>>]
SitesOf(syntaxes, values) == {Site(syn, val) : syn \in syntaxes, val \in values}
Rule(cls, variant, decls) == [cls |-> cls, variant |-> variant, decls |-> decls]

\* class values
AB == <<"flex", "items-center">>
BA == <<"items-center", "flex">>
ABC == <<"flex", "items-center", "gap-2">>
ABX == <<"flex", "items-center", "js-x">>
AAB == <<"flex", "flex", "items-center">>
FG == <<"flex", "gap-2">>
GA == <<"grid", "items-center">>
FabFlex == <<"fab", "flex">>
FabXFlex == <<"flex", "fab-x">>
FaXFlex == <<"fa-x", "flex">>
FabricFlex == <<"fabric-button", "flex">>
IconValues == {FabFlex, FabXFlex, FaXFlex, FabricFlex}
DynamicValues == { <<"flex", "${v}">>, <<"cn(x)">>, <<"c?a:b">>, <<"flex">> }

DEFAULT_CONFIG ==
    [ minOccurrences |-> 2, minClasses |-> 2, minBytesSaved |-> 10,
      forceAll |-> FALSE, excludeDynamicPatterns |-> TRUE,
      skipPatternsWithExcludedClasses |-> TRUE, ssr |-> FALSE,
      dataAttributes |-> FALSE, manifest |-> TRUE, backup |-> FALSE,
      hashPrefix |-> "cp-", hashLength |-> 5, excludeFiles |-> <<>>,
      dynamicPrefixes |-> DEFAULT_DYNAMIC_PREFIXES ]
ForceAll == [DEFAULT_CONFIG EXCEPT !.forceAll = TRUE]
SsrConfig == [ForceAll EXCEPT !.ssr = TRUE]
KeepSafelisted == [ForceAll EXCEPT !.skipPatternsWithExcludedClasses = FALSE]
SingleTokens == [ForceAll EXCEPT !.minClasses = 1, !.minBytesSaved = 0]

MainRules ==
    << Rule("flex", "", <<"display: flex">>),
       Rule("items-center", "", <<"align-items: center">>) >>
DefaultStyles == << [path |-> "main.css", rules |-> MainRules, markers |-> 0] >>

\* the options that leave a loaded configuration as it is
OptionsOf(cfg, dry) ==
    [ minOccurrences |-> cfg.minOccurrences, minClasses |-> cfg.minClasses,
      ssr |-> FALSE, dryRun |-> dry, backup |-> cfg.backup, manifest |-> cfg.manifest ]

Paths == {"index.html", "app.js", "page.rsc"}
NoFaults == [p \in Paths |-> "none"]

Build(cfg, dry, markup, script, fragment, css) ==
    [ command |-> "optimize", loaded |-> cfg, options |-> OptionsOf(cfg, dry),
      faults |-> NoFaults,
      files |-> << [path |-> "index.html", sites |-> markup],
                   [path |-> "app.js", sites |-> script],
                   [path |-> "page.rsc", sites |-> fragment] >>,
      styles |-> css ]

\* repeated and reordered values over the three source kinds
CountingBuilds ==
    { Build(cfg, dry, markup, script, fragment, DefaultStyles) :
        cfg \in {DEFAULT_CONFIG, ForceAll}, dry \in BOOLEAN,
        markup \in SeqsUpTo(SitesOf({"htmlDouble"}, {AB, BA, ABC}), MaxMarkupSites),
        script \in SeqsUpTo(SitesOf({"createElementDouble"}, {AB, ABC}), MaxScriptSites - 1),
        fragment \in SeqsUpTo(SitesOf({"rscPayload"}, {AB}), MaxFragmentSites) }

\* repeated values on the server side, on the script side and on both
SsrBuilds ==
    { Build(SsrConfig, FALSE, markup, script, fragment, DefaultStyles) :
        markup \in SeqsUpTo(SitesOf({"htmlDouble"}, {AB, BA, ABC}), MaxMarkupSites - 1),
        script \in SeqsUpTo(SitesOf({"createElementDouble"}, {AB, BA, ABC}),
                            MaxScriptSites + 1),
        fragment \in SeqsUpTo(SitesOf({"rscPayload"}, {AB}), MaxFragmentSites) }

\* values with and without dynamic markers
DynamicBuilds ==
    { Build(cfg, FALSE, markup, script, <<>>, DefaultStyles) :
        cfg \in {ForceAll, SingleTokens},
        markup \in SeqsUpTo(SitesOf({"htmlDouble"}, DynamicValues \cup {AB, FG}),
                            MaxMarkupSites - 1),
        script \in SeqsUpTo(SitesOf({"createElementDouble"}, {AB, <<"flex">>}),
                            MaxScriptSites - 1) }

\* values with safelisted tokens
SafelistBuilds ==
    { Build(KeepSafelisted, FALSE, markup, script, <<>>, DefaultStyles) :
        markup \in SeqsUpTo(SitesOf({"htmlDouble"}, {AB, BA, ABX}), MaxMarkupSites),
        script \in SeqsUpTo(SitesOf({"createElementDouble"}, {AB, ABX}), MaxScriptSites - 1) }

\* class expressions with a runtime suffix next to fixed values
GateBuilds ==
    { Build(ForceAll, FALSE, markup, script, fragment, DefaultStyles) :
        markup \in SeqsUpTo(SitesOf({"htmlDouble"}, {AB, ABC}), MaxMarkupSites - 1),
        script \in SeqsUpTo(SitesOf({"templateDynamic", "concatDouble"}, {AB})
                              \cup SitesOf({"createElementDouble"}, {AB, ABC}),
                            MaxScriptSites),
        fragment \in SeqsUpTo(SitesOf({"htmlDouble", "rscPayload"}, {ABC}), MaxFragmentSites) }

\* the same, with values that repeat a token
RepeatBuilds ==
    { Build(ForceAll, FALSE, markup, script, <<>>, DefaultStyles) :
        markup \in SeqsUpTo(SitesOf({"htmlDouble"}, {AB, AAB}), MaxMarkupSites - 1),
        script \in SeqsUpTo(SitesOf({"templateDynamic"}, {AB})
                              \cup SitesOf({"createElementDouble"}, {AB, BA, AAB}),
                            MaxScriptSites) }

\* one value in every attribute syntax
SyntaxBuilds ==
    { Build(ForceAll, FALSE, markup, script, fragment, DefaultStyles) :
        markup \in SeqsUpTo(SitesOf({"htmlDouble", "htmlSingle", "htmlEntityDouble",
                                     "htmlNumericDouble"}, {AB})
                              \cup SitesOf({"htmlDouble"}, {BA}), MaxMarkupSites - 1),
        script \in SeqsUpTo(SitesOf({"jsxDouble", "jsxSingle", "createElementDouble",
                                     "createElementSingle", "minifiedComma",
                                     "templateStatic"}, {AB}), MaxScriptSites),
        fragment \in SeqsUpTo(SitesOf({"rscPayload"}, {AB}), MaxFragmentSites) }

\* compiled stylesheets with plain, pseudo-class and media-scoped rules
StyleRules ==
    { Rule("flex", "", <<"display: flex">>),
      Rule("flex", ":hover", <<"color: red">>),
      Rule("flex", "@media", <<"display: block">>),
      Rule("items-center", "", <<"align-items: center">>),
      Rule("gap-2", "", <<"gap: 0.5rem">>) }
StyleBuilds ==
    { Build(ForceAll, FALSE,
            <<Site("htmlDouble", ABC), Site("htmlDouble", AB), Site("htmlDouble", BA)>>,
            <<Site("createElementDouble", ABC)>>, <<>>, css) :
        css \in { <<>> } \cup
                { << [path |-> "main.css", rules |-> main, markers |-> 0] >> :
                     main \in SeqsUpTo(StyleRules, MaxRules) } \cup
                { << [path |-> "main.css", rules |-> main, markers |-> 0],
                     [path |-> "extra.css", rules |-> extra, markers |-> 0] >> :
                     main \in SeqsUpTo(StyleRules, MaxRules - 2),
                     extra \in SeqsUpTo(StyleRules, MaxRules - 1) } }

\* file-system calls that throw on at most one artifact, with and without
\* backups and dry runs
FaultKinds == {"read", "backup", "write"}
OneFault == {NoFaults} \cup {[NoFaults EXCEPT ![p] = k] : p \in Paths, k \in FaultKinds}
FaultBuilds ==
    { [Build(ForceAll, mode.dry, markup, script, fragment, DefaultStyles)
         EXCEPT !.options.backup = mode.backup, !.faults = fault] :
        mode \in { [dry |-> FALSE, backup |-> FALSE], [dry |-> FALSE, backup |-> TRUE],
                   [dry |-> TRUE, backup |-> TRUE] },
        fault \in OneFault,
        markup \in SeqsUpTo(SitesOf({"htmlDouble"}, {AB, ABC}), MaxMarkupSites - 1),
        script \in SeqsUpTo(SitesOf({"createElementDouble"}, {AB, ABC})
                              \cup SitesOf({"templateDynamic"}, {AB}), MaxScriptSites - 1),
        fragment \in SeqsUpTo(SitesOf({"htmlDouble"}, {AB}), MaxFragmentSites) }

\* both commands, with and without --ssr, on a configuration file with and
\* without ssr: true
CommandBuilds ==
    { [Build(cfg, FALSE, markup, script, fragment, DefaultStyles)
         EXCEPT !.command = cmd, !.options.ssr = flag] :
        cmd \in {"optimize", "analyze"}, flag \in BOOLEAN, cfg \in {ForceAll, SsrConfig},
        markup \in SeqsUpTo(SitesOf({"htmlDouble"}, {AB, BA, ABC}), MaxMarkupSites - 1),
        script \in SeqsUpTo(SitesOf({"createElementDouble"}, {AB, ABC}), MaxScriptSites - 1),
        fragment \in SeqsUpTo(SitesOf({"rscPayload"}, {AB}), MaxFragmentSites) }

\* --min-occurrences and --min-classes with valid and invalid numbers
OptionNumbers == {0, 2}
InvalidBuilds ==
    { [Build(ForceAll, dry, markup, script, fragment, DefaultStyles)
         EXCEPT !.options.minOccurrences = occ, !.options.minClasses = cls] :
        dry \in BOOLEAN, occ \in OptionNumbers, cls \in OptionNumbers,
        markup \in SeqsUpTo(SitesOf({"htmlDouble"}, {AB, BA}), MaxMarkupSites - 1),
        script \in SeqsUpTo(SitesOf({"createElementDouble"}, {AB}), MaxScriptSites - 1),
        fragment \in SeqsUpTo(SitesOf({"htmlDouble"}, {AB}), MaxFragmentSites) }

\* builds with no, one or two stylesheets of different sizes, with and without
\* the marker comment
InjectRules ==
    { Rule("flex", "", <<"display: flex">>),
      Rule("items-center", "", <<"align-items: center">>),
      Rule("gap-2", "", <<"gap: 0.5rem">>) }
Sheet(path, rules, markers) == [path |-> path, rules |-> rules, markers |-> markers]
InjectBuilds ==
    { Build(ForceAll, dry,
            <<Site("htmlDouble", AB), Site("htmlDouble", BA)>>,
            <<Site("createElementDouble", AB)>>, <<>>, css) :
        dry \in BOOLEAN,
        css \in { <<>> } \cup
                { << Sheet("main.css", main, m) >> :
                     main \in SeqsUpTo(InjectRules, MaxRules - 1), m \in {0, 1} } \cup
                { << Sheet("main.css", main, m), Sheet("extra.css", extra, x) >> :
                     main \in SeqsUpTo(InjectRules, MaxRules - 1),
                     extra \in SeqsUpTo(InjectRules, MaxRules - 1),
                     m \in {0, 1}, x \in {0, 1} } }

\* configurations that exclude the script file or the server fragment
ExcludeLists == { <<>>, <<"*.js">>, <<"page.*">>, <<"**/demo*", "page.*">> }
ExcludeBuilds ==
    { Build([ForceAll EXCEPT !.excludeFiles = list], FALSE, markup, script, fragment,
            DefaultStyles) :
        list \in ExcludeLists,
        markup \in SeqsUpTo(SitesOf({"htmlDouble"}, {AB, BA}), MaxMarkupSites - 1),
        script \in SeqsUpTo(SitesOf({"createElementDouble", "templateDynamic"}, {AB, ABC}),
                            MaxScriptSites - 1),
        fragment \in SeqsUpTo(SitesOf({"htmlDouble"}, {AB}), MaxFragmentSites) }

\* configurations that switch each filter of the selection on and off, on
\* long, short and safelisted values
SelectionConfigs ==
    { DEFAULT_CONFIG, ForceAll, SsrConfig, KeepSafelisted,
      [DEFAULT_CONFIG EXCEPT !.minBytesSaved = 0],
      [ForceAll EXCEPT !.minBytesSaved = 0],
      [KeepSafelisted EXCEPT !.minOccurrences = 1] }
SelectionBuilds ==
    { Build(cfg, FALSE, markup, script, fragment, DefaultStyles) :
        cfg \in SelectionConfigs,
        markup \in SeqsUpTo(SitesOf({"htmlDouble"}, {AB, BA, FG, ABX}), MaxMarkupSites - 1),
        script \in SeqsUpTo(SitesOf({"createElementDouble"}, {AB, FG, ABX}),
                            MaxScriptSites - 1),
        fragment \in SeqsUpTo(SitesOf({"rscPayload"}, {FG}), MaxFragmentSites) }

\* two patterns of the same length, sighted in either order
OrderBuilds ==
    { Build(ForceAll, FALSE, markup, script, fragment, DefaultStyles) :
        markup \in SeqsUpTo(SitesOf({"htmlDouble"}, {AB, GA, ABC}), MaxMarkupSites),
        script \in SeqsUpTo(SitesOf({"createElementDouble"}, {AB, GA}), MaxScriptSites - 1),
        fragment \in SeqsUpTo(SitesOf({"rscPayload"}, {GA}), MaxFragmentSites) }

\* values that hold more and fewer tokens than a repeated value
MatchBuilds ==
    { Build(ForceAll, FALSE, markup, script, <<>>, DefaultStyles) :
        markup \in SeqsUpTo(SitesOf({"htmlDouble"}, {AB, ABC, <<"flex">>}), MaxMarkupSites),
        script \in SeqsUpTo(SitesOf({"createElementDouble"}, {AB, ABC, <<"flex">>}),
                            MaxScriptSites - 1) }

\* class expressions with a runtime suffix after one token and after two
BaseBuilds ==
    { Build(cfg, FALSE, markup, script, fragment, DefaultStyles) :
        cfg \in {ForceAll, SingleTokens},
        markup \in SeqsUpTo(SitesOf({"htmlDouble"}, {AB}), MaxMarkupSites - 1),
        script \in SeqsUpTo(SitesOf({"templateDynamic", "concatDouble"}, {AB, <<"flex">>})
                              \cup SitesOf({"createElementDouble"}, {AB}),
                            MaxScriptSites),
        fragment \in SeqsUpTo(SitesOf({"htmlDouble"}, {AB}), MaxFragmentSites) }

\* values with tokens of icon families, with the filter on, off and without
\* prefixes
IconConfigs ==
    { ForceAll, [ForceAll EXCEPT !.excludeDynamicPatterns = FALSE],
      [ForceAll EXCEPT !.dynamicPrefixes = <<>>] }
IconBuilds ==
    { Build(cfg, FALSE, markup, script, <<>>, DefaultStyles) :
        cfg \in IconConfigs,
        markup \in SeqsUpTo(SitesOf({"htmlDouble"}, IconValues \cup {AB}), MaxMarkupSites - 1),
        script \in SeqsUpTo(SitesOf({"createElementDouble"}, IconValues),
                            MaxScriptSites - 1) }

\* a first invocation with a higher --min-occurrences, as a dry run or not,
\* and a second invocation with the default one
ThresholdBuilds ==
    { [Build(ForceAll, dry, markup, script, fragment, DefaultStyles)
         EXCEPT !.options.minOccurrences = ForceAll.minOccurrences + 1]
        @@ [later |-> OptionsOf(ForceAll, FALSE)] :
        dry \in BOOLEAN,
        markup \in SeqsUpTo(SitesOf({"htmlDouble"}, {AB, GA}), MaxMarkupSites - 1),
        script \in SeqsUpTo(SitesOf({"createElementDouble"}, {AB, GA}), MaxScriptSites),
        fragment \in SeqsUpTo(SitesOf({"htmlDouble"}, {AB}), MaxFragmentSites) }

\* consistency-safe mode on markup and script files that hold fixed values
\* and a class expression with a runtime suffix
SidesBuilds ==
    { Build(SsrConfig, FALSE, markup, script, <<>>, DefaultStyles) :
        markup \in SeqsUpTo(SitesOf({"htmlDouble"}, {AB, ABC}), MaxMarkupSites - 1),
        script \in SeqsUpTo(SitesOf({"templateDynamic"}, {AB})
                              \cup SitesOf({"createElementDouble"}, {AB, ABC}),
                            MaxScriptSites) }

EntryState(b) ==
    /\ command = b.command
    /\ options = b.options
    /\ later = IF "later" \in DOMAIN b THEN b.later ELSE b.options
    /\ loaded = b.loaded
    /\ config = resolveConfig(b.command, b.loaded, b.options)
    /\ dryRun = b.options.dryRun
    /\ files = b.files
    /\ styles = b.styles
    /\ faults = b.faults
    /\ backups = {}
    /\ scanErrors = <<>>
    /\ transformErrors = <<>>
    /\ manifestSaved = FALSE
    /\ pc = "scan"
    /\ run = 1
    /\ scanIdx = 1
    /\ occurrences = <<>>
    /\ dynamicBasePatterns = <<>>
    /\ candidates = <<>>
    /\ mappings = <<>>
    /\ consolidatedCSS = <<>>
    /\ txIdx = 1
    /\ txLog = <<>>
    /\ filesModified = 0
    /\ bytesChanged = 0
    /\ manifest = <<>>
    /\ atStart = [files |-> b.files, styles |-> b.styles]

\* no command of the sources creates a logger
LoggerIdle ==
    /\ debug = FALSE
    /\ diskFails = FALSE
    /\ initialized = FALSE
    /\ logFile = <<>>
    /\ logCalls = [c \in Calls |-> "idle"]

StartsOn(b) == EntryState(b) /\ LoggerIdle

\* createLogger with and without debug, on a disk that fails or not
LoggerInit ==
    /\ EntryState(Build(DEFAULT_CONFIG, FALSE, <<>>, <<>>, <<>>, <<>>))
    /\ debug \in BOOLEAN
    /\ diskFails \in BOOLEAN
    /\ initialized = FALSE
    /\ logFile = <<>>
    /\ logCalls = [c \in Calls |-> "idle"]

CountingInit == \E b \in CountingBuilds : StartsOn(b)
SsrInit == \E b \in SsrBuilds : StartsOn(b)
DynamicInit == \E b \in DynamicBuilds : StartsOn(b)
SafelistInit == \E b \in SafelistBuilds : StartsOn(b)
GateInit == \E b \in GateBuilds : StartsOn(b)
RepeatInit == \E b \in RepeatBuilds : StartsOn(b)
SyntaxInit == \E b \in SyntaxBuilds : StartsOn(b)
StyleInit == \E b \in StyleBuilds : StartsOn(b)
FaultInit == \E b \in FaultBuilds : StartsOn(b)
CommandInit == \E b \in CommandBuilds : StartsOn(b)
InvalidInit == \E b \in InvalidBuilds : StartsOn(b)
InjectInit == \E b \in InjectBuilds : StartsOn(b)
ExcludeInit == \E b \in ExcludeBuilds : StartsOn(b)
SelectionInit == \E b \in SelectionBuilds : StartsOn(b)
OrderInit == \E b \in OrderBuilds : StartsOn(b)
MatchInit == \E b \in MatchBuilds : StartsOn(b)
BaseInit == \E b \in BaseBuilds : StartsOn(b)
IconInit == \E b \in IconBuilds : StartsOn(b)
ThresholdInit == \E b \in ThresholdBuilds : StartsOn(b)
SidesInit == \E b \in SidesBuilds : StartsOn(b)

CountingSpec == CountingInit /\ [][Next]_vars
SsrSpec == SsrInit /\ [][Next]_vars
DynamicSpec == DynamicInit /\ [][Next]_vars
SafelistSpec == SafelistInit /\ [][Next]_vars
GateSpec == GateInit /\ [][Next]_vars
RepeatSpec == RepeatInit /\ [][Next]_vars
SyntaxSpec == SyntaxInit /\ [][Next]_vars
StyleSpec == StyleInit /\ [][Next]_vars
FaultSpec == FaultInit /\ [][Next]_vars
CommandSpec == CommandInit /\ [][Next]_vars
InvalidSpec == InvalidInit /\ [][Next]_vars
InjectSpec == InjectInit /\ [][Next]_vars
ExcludeSpec == ExcludeInit /\ [][Next]_vars
SelectionSpec == SelectionInit /\ [][Next]_vars
OrderSpec == OrderInit /\ [][Next]_vars
MatchSpec == MatchInit /\ [][Next]_vars
BaseSpec == BaseInit /\ [][Next]_vars
IconSpec == IconInit /\ [][Next]_vars
ThresholdSpec == ThresholdInit /\ [][Next]_vars
SidesSpec == SidesInit /\ [][Next]_vars
LoggerSpec == LoggerInit /\ [][LoggerNext]_vars

(***************************************************************************)
(* Vocabulary of the properties                                            *)
(***************************************************************************)
\* the class-attribute values of a build: file and place of every site that
\* a pattern of the scanner matches
Sightings(build) ==
    UNION { { <<f, i>> : i \in { k \in 1..Len(build[f].sites) :
                                   build[f].sites[k].syn \in Range(ALL_CLASS_PATTERNS) } } :
            f \in 1..Len(build) }
ValueAt(build, s) == build[s[1]].sites[s[2]].val
LocationOf(build, s) == [filePath |-> build[s[1]].path, line |-> s[2]]
KeyOf(val) == normalizeClassString(val).normalized
IncludedOf(val) == normalizeClassString(val).classes
SafelistedOf(val) == normalizeClassString(val).excludedClasses
BagOf(list) == [t \in Range(list) |-> Cardinality({i \in 1..Len(list) : list[i] = t})]
\* two values made of the same non-safelisted tokens
SameTokens(v, w) == BagOf(IncludedOf(v)) = BagOf(IncludedOf(w))
\* a sighting the occurrence accounting is about: a static value with enough
\* tokens and no token of a runtime-generated family
Accountable(val) ==
    /\ val # <<>>
    /\ ~isDynamicClassString(val)
    /\ Len(IncludedOf(val)) >= config.minClasses
    /\ ~(config.excludeDynamicPatterns
           /\ containsDynamicPrefix(IncludedOf(val), config.dynamicPrefixes))
AccountableSightings ==
    {s \in Sightings(atStart.files) : Accountable(ValueAt(atStart.files, s))}
ScanComplete == pc # "scan"

(***************************************************************************)
(* C1                                                                      *)
(***************************************************************************)
\* C1: two class values made of the same non-safelisted tokens in a different
\* order have the same normalized key, and once the scan has seen both, one
\* occurrence holds that key, counts both (count 2 when they are the only
\* sightings of the key) and lists a location of each of the two values.
C1_OrderIndependentMerge ==
    LET seen == AccountableSightings
        val(s) == ValueAt(atStart.files, s)
        merged(s, t) ==
            \E i \in 1..Len(occurrences) :
                LET o == occurrences[i]
                IN /\ o.normalizedKey = KeyOf(val(s))
                   /\ \A j \in 1..Len(occurrences) :
                         occurrences[j].normalizedKey = o.normalizedKey => j = i
                   /\ o.count = Len(o.locations)
                   /\ o.count >= 2
                   /\ \E a, b \in seen :
                         /\ a # b
                         /\ val(a) = val(s)
                         /\ val(b) = val(t)
                         /\ LocationOf(atStart.files, a) \in Range(o.locations)
                         /\ LocationOf(atStart.files, b) \in Range(o.locations)
                   /\ ({u \in seen : KeyOf(val(u)) = o.normalizedKey} = {s, t}
                         => o.count = 2)
    IN \A s, t \in seen :
          (val(s) # val(t) /\ SameTokens(val(s), val(t)))
             => /\ KeyOf(val(s)) = KeyOf(val(t))
                /\ (ScanComplete => merged(s, t))

\* the scan has merged two differently ordered values into one occurrence of count 2
C1_Witness ==
    /\ pc = "detect"
    /\ \E i \in 1..Len(occurrences) : \E s, t \in AccountableSightings :
          /\ occurrences[i].count = 2
          /\ occurrences[i].locations
                = <<LocationOf(atStart.files, s), LocationOf(atStart.files, t)>>
          /\ ValueAt(atStart.files, s) = AB
          /\ ValueAt(atStart.files, t) = BA

(***************************************************************************)
(* C2                                                                      *)
(***************************************************************************)
\* the declarations a token has in the compiled stylesheets, in its plain,
\* pseudo-class and media-scoped rules, or in the interpreter when the
\* stylesheets have no rule for it
StyledBy(css, token) ==
    LET own == UNION { { css[f].rules[k] : k \in { n \in 1..Len(css[f].rules) :
                                                     css[f].rules[n].cls = token } } :
                       f \in 1..Len(css) }
    IN IF own = {} THEN Range(parseUtilityClass(token))
       ELSE UNION {Range(r.decls) : r \in own}
MappingsApplied == pc \in {"transform", "inject", "manifest", "done"} /\ Len(mappings) > 0

\* C2: for every mapping the rewriter applies, the declarations stored for the
\* synthetic name are, as a set, the union of the declarations each token of
\* the mapping has in the compiled stylesheets (its pseudo-class and
\* media-scoped rules included) or, without a rule, in the interpreter.
C2_RoundTripStyling ==
    MappingsApplied =>
        \A i \in 1..Len(mappings) :
            Range(mappings[i].cssDeclarations)
                = UNION {StyledBy(atStart.styles, t) : t \in Range(mappings[i].classes)}

(***************************************************************************)
(* C3                                                                      *)
(***************************************************************************)
\* the accountable sightings of a key in the files of some kinds
SeenIn(key, kinds) ==
    {s \in AccountableSightings :
        /\ KeyOf(ValueAt(atStart.files, s)) = key
        /\ Ext[atStart.files[s[1]].path] \in kinds}
ServerKinds == {"html", "htm", "rsc"}
ScriptKinds == {"js", "mjs", "cjs"}

\* C3: with config.ssr, every candidate detectConsolidatablePatterns returns
\* was sighted in a markup or server-fragment file and in a script file; a key
\* sighted on one side only is not among the candidates.
C3_SsrSelection ==
    config.ssr =>
        \A i \in 1..Len(candidates) :
            /\ SeenIn(candidates[i].normalizedKey, ServerKinds) # {}
            /\ SeenIn(candidates[i].normalizedKey, ScriptKinds) # {}

\* with config.ssr a key of both sides was selected while a key repeated on
\* the script side only was left out
C3_Witness ==
    /\ config.ssr
    /\ pc = "mappings"
    /\ Len(candidates) > 0
    /\ \E j \in 1..Len(occurrences) :
          /\ occurrences[j].count >= config.minOccurrences
          /\ occurrences[j].sourceTypes = {"js"}
          /\ \A k \in 1..Len(candidates) :
                candidates[k].normalizedKey # occurrences[j].normalizedKey

(***************************************************************************)
(* C4                                                                      *)
(***************************************************************************)
\* the files the transform loop of this invocation has been through
Rewritten == {f \in 1..Len(files) : f <= Len(txLog)}
BaseSets == {Range(dynamicBasePatterns[i].baseClasses) : i \in 1..Len(dynamicBasePatterns)}
TokenSet(mapping) == Range(mapping.classes)
StrictSupersetOfBase(mapping) ==
    \E base \in BaseSets : base \subseteq TokenSet(mapping) /\ base # TokenSet(mapping)
EqualsBase(mapping) == TokenSet(mapping) \in BaseSets
\* the sites of file f that this invocation has given the name of the mapping
ReplacedBy(f, mapping) ==
    {k \in 1..Len(files[f].sites) :
        /\ files[f].sites[k].val # atStart.files[f].sites[k].val
        /\ Head(files[f].sites[k].val) = mapping.consolidated}

\* C4: in a rewritten markup or server-fragment file the mappings skipped are
\* exactly those whose token set is a strict superset of a dynamic base, and no
\* value of the file is replaced by the name of such a mapping.
C4_SupersetGate ==
    \A f \in Rewritten :
        Ext[files[f].path] \in ServerKinds =>
            /\ txLog[f].skippedForHydration
                  = Cardinality({i \in 1..Len(mappings) : StrictSupersetOfBase(mappings[i])})
            /\ \A i \in 1..Len(mappings) :
                  StrictSupersetOfBase(mappings[i]) => ReplacedBy(f, mappings[i]) = {}

(***************************************************************************)
(* C5                                                                      *)
(***************************************************************************)
\* the syntaxes of a class expression with a runtime-computed suffix
RuntimeSuffixSyntaxes == Range(DYNAMIC_BASE_PATTERNS) \cup Range(CONCAT_BASE_PATTERNS)

\* C5: in a rewritten script file the mappings skipped are exactly those whose
\* token set equals a dynamic base, and the static prefix of a class
\* expression with a runtime-computed suffix is left as it was.
C5_ExactMatchGate ==
    \A f \in Rewritten :
        Ext[files[f].path] \in ScriptKinds =>
            /\ txLog[f].skippedForHydration
                  = Cardinality({i \in 1..Len(mappings) : EqualsBase(mappings[i])})
            /\ \A k \in 1..Len(files[f].sites) :
                  atStart.files[f].sites[k].syn \in RuntimeSuffixSyntaxes
                     => files[f].sites[k].val = atStart.files[f].sites[k].val

(***************************************************************************)
(* C6                                                                      *)
(***************************************************************************)
\* C6: after the scan the count of every occurrence is the number of
\* accountable class values of the build with its key, values repeated inside
\* one file included, and every such key has an occurrence.
C6_CountsEverySighting ==
    ScanComplete =>
        /\ \A i \in 1..Len(occurrences) :
              occurrences[i].count
                 = Cardinality({s \in AccountableSightings :
                                   KeyOf(ValueAt(atStart.files, s)) = occurrences[i].normalizedKey})
        /\ \A s \in AccountableSightings :
              \E i \in 1..Len(occurrences) :
                 occurrences[i].normalizedKey = KeyOf(ValueAt(atStart.files, s))

(***************************************************************************)
(* C7                                                                      *)
(***************************************************************************)
\* C7: with skipPatternsWithExcludedClasses off, every value the rewriter
\* has replaced is the synthetic name of a mapping followed by exactly the
\* safelisted tokens that value held before.
C7_SafelistedPreserved ==
    ~config.skipPatternsWithExcludedClasses =>
        \A f \in Rewritten : \A k \in 1..Len(files[f].sites) :
            files[f].sites[k].val # atStart.files[f].sites[k].val =>
                \E i \in 1..Len(mappings) :
                    files[f].sites[k].val
                       = <<mappings[i].consolidated>>
                            \o SafelistedOf(atStart.files[f].sites[k].val)

(***************************************************************************)
(* C8                                                                      *)
(***************************************************************************)
MarkerCount == SeqSum([f \in 1..Len(styles) |-> styles[f].markers])

\* C8: a second invocation, on what a first invocation that was no dry run
\* left on disk, modifies no artifact, leaves every stylesheet as it found it
\* and the marker at most once.
C8_SecondRunChangesNothing ==
    (run = 2 /\ ~dryRun) =>
        /\ filesModified = 0
        /\ files = atStart.files
        /\ styles = atStart.styles
        /\ MarkerCount <= 1

(***************************************************************************)
(* C9                                                                      *)
(***************************************************************************)
\* the hydration gate as stated: strict supersets of a base in server files,
\* mappings equal to a base in script files
GateSkips(f, mapping) ==
    \/ Ext[files[f].path] \in ServerKinds /\ StrictSupersetOfBase(mapping)
    \/ Ext[files[f].path] \in ScriptKinds /\ EqualsBase(mapping)

\* C9: in a rewritten file, for every mapping the hydration gate does not
\* skip there, every class value in a syntax of the scanner whose
\* non-safelisted token set is the mapping's token set has been replaced by a
\* synthetic name.
C9_RewriterCoversScannerSyntaxes ==
    \A f \in Rewritten : \A i \in 1..Len(mappings) :
        (~dryRun /\ ~GateSkips(f, mappings[i])) =>
            \A k \in 1..Len(files[f].sites) :
                LET before == atStart.files[f].sites[k]
                IN (/\ before.syn \in Range(ALL_CLASS_PATTERNS)
                    /\ Range(IncludedOf(before.val)) = TokenSet(mappings[i]))
                      => Head(files[f].sites[k].val) \in Range(HashNames)

(***************************************************************************)
(* C10                                                                     *)
(***************************************************************************)
\* an unresolved dynamic marker in a class value: an interpolation, a
\* ternary, a function-call form, or one bare lowercase identifier
HasDynamicMarker(val) ==
    LET s == JoinChars(val)
    IN \/ \E i \in 1..(Len(s) - 1) : s[i] = "$" /\ s[i + 1] = "{"
       \/ (\E i \in 1..Len(s) : s[i] = "?") /\ (\E i \in 1..Len(s) : s[i] = ":")
       \/ \E i \in 1..(Len(s) - 1) : s[i] \in WordChar /\ s[i + 1] = "("
       \/ Len(val) = 1 /\ \A i \in 1..Len(s) : s[i] \in LowerCase
\* the value the build holds at a location of an occurrence
ValueAtLocation(loc) ==
    LET f == CHOOSE n \in 1..Len(atStart.files) : atStart.files[n].path = loc.filePath
    IN atStart.files[f].sites[loc.line].val

\* C10: no occurrence lists or counts a class value with a dynamic marker,
\* and the static value "flex gap-2" is not dynamic: where the build holds it
\* and two tokens are enough, the scan accounts for it.
C10_DynamicNeverAccounted ==
    /\ ~isDynamicClassString(FG)
    /\ \A i \in 1..Len(occurrences) :
          /\ occurrences[i].count = Len(occurrences[i].locations)
          /\ \A n \in 1..Len(occurrences[i].locations) :
                ~HasDynamicMarker(ValueAtLocation(occurrences[i].locations[n]))
    /\ ScanComplete =>
          \A s \in Sightings(atStart.files) :
              ValueAt(atStart.files, s) = FG =>
                  \E i \in 1..Len(occurrences) : occurrences[i].normalizedKey = KeyOf(FG)

\* the scan, keeping one-token values, is through a build that holds a
\* function-call form, a ternary and a bare identifier next to "flex gap-2",
\* and only the latter has an occurrence
C10_Witness ==
    /\ pc = "detect"
    /\ config.minClasses = 1
    /\ \E s, t \in Sightings(atStart.files) :
          /\ ValueAt(atStart.files, s) \in {<<"cn(x)">>, <<"c?a:b">>, <<"flex">>}
          /\ ValueAt(atStart.files, t) = FG
    /\ Len(occurrences) = 1
    /\ occurrences[1].normalizedKey = KeyOf(FG)

(***************************************************************************)
(* C11                                                                     *)
(***************************************************************************)
\* C11: in a dry run of optimize nothing is committed: at every step the
\* artifacts and the stylesheets on disk are those the run found, there is
\* no backup copy and no manifest
C11_DryRunCommitsNothing ==
    dryRun =>
        /\ files = atStart.files
        /\ styles = atStart.styles
        /\ backups = {}
        /\ ~manifestSaved
        /\ manifest = <<>>

\* a dry run with backups asked for has finished, and it had mappings that
\* rewrite an artifact
C11_Witness ==
    /\ dryRun
    /\ config.backup
    /\ pc = "done"
    /\ Len(mappings) > 0
    /\ filesModified > 0

(***************************************************************************)
(* C12                                                                     *)
(***************************************************************************)
\* C12: when no occurrence reaches the minimum repeat count, a finished
\* non-dry optimize run has an empty candidate list, has modified no file
\* and has written a manifest that holds zero mappings
C12_EmptyResultManifest ==
    ( /\ command = "optimize"
      /\ ~dryRun
      /\ config.manifest
      /\ pc = "done"
      /\ Len(occurrences) > 0
      /\ \A i \in 1..Len(occurrences) : occurrences[i].count < config.minOccurrences )
    => /\ candidates = <<>>
       /\ filesModified = 0
       /\ manifestSaved
       /\ manifest = <<>>

(***************************************************************************)
(* C13                                                                     *)
(***************************************************************************)
Detected == pc \notin {"scan", "detect"}
\* where the occurrence of a candidate stands in the order of the scan
ScanOrder(c) == CHOOSE i \in 1..Len(occurrences) :
                    occurrences[i].normalizedKey = c.normalizedKey
NamesBefore(c) ==
    { candidates[j].hashName : j \in { k \in 1..Len(candidates) :
                                         ScanOrder(candidates[k]) < ScanOrder(c) } }

C14_SsrWhenRequested ==
    (Detected /\ (options.ssr \/ loaded.ssr)) =>
        \A i \in 1..Len(candidates) :
            /\ SeenIn(candidates[i].normalizedKey, ServerKinds) # {}
            /\ SeenIn(candidates[i].normalizedKey, ScriptKinds) # {}

(***************************************************************************)
(* C15                                                                     *)
(***************************************************************************)
\* C15: when validateConfig finds an error in the resolved configuration,
\* optimize stops before it reads or writes anything: no file is scanned or
\* transformed, and artifacts, stylesheets, backups and manifest stay as
\* they were
C15_ValidationFirst ==
    (command = "optimize" /\ validateConfig(config) # <<>>) =>
        /\ pc = "scan"
        /\ scanIdx = 1
        /\ txIdx = 1
        /\ files = atStart.files
        /\ styles = atStart.styles
        /\ backups = {}
        /\ ~manifestSaved

(***************************************************************************)
(* C16                                                                     *)
(***************************************************************************)
\* the scan of a list of readable files, from empty maps
RECURSIVE ScanOf(_, _)
ScanOf(fileList, cfg) ==
    IF fileList = <<>>
    THEN [occurrences |-> <<>>, dynamicBasePatterns |-> <<>>, errors |-> <<>>]
    ELSE scanFile(ScanOf(SubSeq(fileList, 1, Len(fileList) - 1), cfg),
                  fileList[Len(fileList)], cfg, "none")
Unreadable(f) == faults[f.path] = "read"
PathsOf(fileList) == [i \in 1..Len(fileList) |-> fileList[i].path]

\* C16: after a scan in which reading some artifact failed, errors holds
\* exactly one string for that artifact, and the occurrences (with their
\* counts) and the dynamic-base patterns are those of a scan of the build
\* without that artifact
C16_ScanFailureIsolated ==
    (ScanComplete /\ config.excludeFiles = <<>>) =>
        LET without == SelectSeq(atStart.files, LAMBDA f : ~Unreadable(f))
        IN /\ scanErrors = PathsOf(SelectSeq(atStart.files, Unreadable))
           /\ occurrences = ScanOf(without, config).occurrences
           /\ dynamicBasePatterns = ScanOf(without, config).dynamicBasePatterns

\* a finished scan with one error, where the failing artifact holds class
\* values and another artifact contributed an occurrence
C16_Witness ==
    /\ ScanComplete
    /\ Len(scanErrors) = 1
    /\ \E f \in 1..Len(atStart.files) :
          Unreadable(atStart.files[f]) /\ atStart.files[f].sites # <<>>
    /\ Len(occurrences) > 0

(***************************************************************************)
(* C17                                                                     *)
(***************************************************************************)
\* what transformFile computes for the artifact at place i of the build
ComputedFor(i) == transformFile(atStart.files[i], mappings, config, dynamicBasePatterns)
\* whether a file-system call of transformFile throws on that artifact
Throws(i) ==
    LET fault == faults[atStart.files[i].path]
    IN \/ fault = "read"
       \/ /\ ComputedFor(i).modified
          /\ ~dryRun
          /\ (config.backup /\ fault = "backup") \/ fault = "write"
TransformStarted == pc \in {"transform", "inject", "manifest", "failed"}
                      \/ (pc = "done" /\ Len(mappings) > 0)

\* C17: in transformBuildOutput an artifact whose read, backup or write
\* throws gets one error string and is not counted in filesModified, and
\* every other artifact is processed as without the failure: it is
\* reported and counted as transformFile computes it, holds the rewritten
\* text when it was modified in a non-dry run, and the loop reaches the
\* last artifact
C17_RewriteFailureIsolated ==
    TransformStarted =>
        /\ \A i \in 1..Len(txLog) :
              IF Throws(i)
              THEN /\ ~txLog[i].modified
                   /\ Cardinality({k \in 1..Len(transformErrors) :
                                      transformErrors[k] = atStart.files[i].path}) = 1
              ELSE /\ txLog[i].modified = ComputedFor(i).modified
                   /\ txLog[i].replacements = ComputedFor(i).replacements
                   /\ files[i].sites = IF ComputedFor(i).modified /\ ~dryRun
                                       THEN ComputedFor(i).content
                                       ELSE atStart.files[i].sites
                   /\ \A k \in 1..Len(transformErrors) :
                         transformErrors[k] # atStart.files[i].path
        /\ filesModified = Cardinality({i \in 1..Len(txLog) :
                                          ~Throws(i) /\ ComputedFor(i).modified})
        /\ pc # "transform" => Len(txLog) = Len(files)

\* a finished transform in which one artifact that had replacements failed
\* and a later artifact was modified
C17_Witness ==
    /\ pc \in {"inject", "manifest", "done"}
    /\ Len(transformErrors) = 1
    /\ \E i, j \in 1..Len(txLog) :
          /\ i < j
          /\ Throws(i) /\ ComputedFor(i).modified
          /\ ~Throws(j) /\ txLog[j].modified

InjectionDone == ~dryRun /\ (pc = "manifest" \/ (pc = "done" /\ Len(mappings) > 0))
HasMarker(sheets) == \E k \in 1..Len(sheets) : sheets[k].markers > 0

LocatedIn(entries, path) ==
    \E i \in 1..Len(entries) :
        \E k \in 1..Len(entries[i].locations) : entries[i].locations[k].filePath = path

\* C20: a file whose path matches a pattern of exclude.files is the location
\* of no occurrence and of no dynamic-base pattern, and holds after the
\* transform what it held before
C20_ExcludedFilesUntouched ==
    \A f \in 1..Len(files) :
        shouldExcludeFile(files[f].path, config.excludeFiles) =>
            /\ ~LocatedIn(occurrences, files[f].path)
            /\ ~LocatedIn(dynamicBasePatterns, files[f].path)
            /\ files[f] = atStart.files[f]

(***************************************************************************)
(* C21                                                                     *)
(***************************************************************************)
IsCandidate(o) ==
    \E k \in 1..Len(candidates) : candidates[k].normalizedKey = o.normalizedKey
SavedBy(o) ==
    calculateBytesSaved(o.classString, generateHashName(o.normalizedKey), o.count,
                        o.excludedClasses)
BothSides(o) ==
    /\ o.sourceTypes \cap {"html", "rsc"} # {}
    /\ "js" \in o.sourceTypes

\* C21: an occurrence is among the candidates exactly when its count reaches
\* minOccurrences, it has at least minClasses non-safelisted tokens, ssr is
\* off or it was seen on both sides, skipPatternsWithExcludedClasses is off
\* or it has no safelisted token, its bytes saved reach minBytesSaved, and
\* forceAll is on or its bytes saved exceed the overhead of its rule
C21_SelectionIsConjunction ==
    Detected =>
        \A i \in 1..Len(occurrences) :
            LET o == occurrences[i]
            IN IsCandidate(o) <=>
                 /\ o.count >= config.minOccurrences
                 /\ Len(o.classes) >= config.minClasses
                 /\ (~config.ssr \/ BothSides(o))
                 /\ (~config.skipPatternsWithExcludedClasses \/ o.excludedClasses = <<>>)
                 /\ SavedBy(o) >= config.minBytesSaved
                 /\ (config.forceAll \/ SavedBy(o) > calculatePatternCSSOverhead(o.classes))

\* one occurrence was selected and another one, repeated often enough, was
\* rejected for saving too few bytes although forceAll is on
C21_Witness ==
    /\ Detected
    /\ config.forceAll
    /\ \E i, j \in 1..Len(occurrences) :
          /\ IsCandidate(occurrences[i])
          /\ ~IsCandidate(occurrences[j])
          /\ occurrences[j].count >= config.minOccurrences
          /\ SavedBy(occurrences[j]) < config.minBytesSaved

(***************************************************************************)
(* C22                                                                     *)
(***************************************************************************)
\* C22: the candidates are in descending order of bytes saved, and of two
\* candidates that save the same the one with the smaller normalized key
\* comes first
C22_TotalOrder ==
    Detected =>
        \A i, j \in 1..Len(candidates) :
            i < j =>
                \/ candidates[i].bytesSaved > candidates[j].bytesSaved
                \/ /\ candidates[i].bytesSaved = candidates[j].bytesSaved
                   /\ StrLess(JoinChars(candidates[i].normalizedKey),
                               JoinChars(candidates[j].normalizedKey))

(***************************************************************************)
(* C23                                                                     *)
(***************************************************************************)
\* the mappings of this invocation made of exactly the non-safelisted tokens
\* of a class value
ExactMappings(val) ==
    {i \in 1..Len(mappings) : TokenSet(mappings[i]) = Range(IncludedOf(val))}
\* the sites of a transformed file whose value has the token set of no mapping
Unmatched(f) ==
    {k \in 1..Len(atStart.files[f].sites) :
        ExactMappings(atStart.files[f].sites[k].val) = {}}
StrictSuperset(val) ==
    \E i \in 1..Len(mappings) :
        /\ TokenSet(mappings[i]) \subseteq Range(IncludedOf(val))
        /\ TokenSet(mappings[i]) # Range(IncludedOf(val))
StrictSubset(val) ==
    \E i \in 1..Len(mappings) :
        /\ Range(IncludedOf(val)) \subseteq TokenSet(mappings[i])
        /\ TokenSet(mappings[i]) # Range(IncludedOf(val))

\* C23: in every file the transform has processed, a class value whose
\* non-safelisted token set equals the token set of no applied mapping is
\* as it was before the run, in syntax, tokens and data attribute; so is a
\* value that is a strict superset or a strict subset of a mapping's set.
C23_ExactMatchOnly ==
    \A f \in Rewritten :
        \A k \in Unmatched(f) : files[f].sites[k] = atStart.files[f].sites[k]
\* a file was rewritten while it held a strict superset and a strict subset
\* of applied mappings that matched neither exactly
C23_Witness ==
    /\ ~dryRun
    /\ \E f \in Rewritten :
          /\ files[f] # atStart.files[f]
          /\ \E k \in Unmatched(f) : StrictSuperset(atStart.files[f].sites[k].val)
    /\ \E g \in Rewritten :
          \E k \in Unmatched(g) : StrictSubset(atStart.files[g].sites[k].val)

(***************************************************************************)
(* C24                                                                     *)
(***************************************************************************)
\* the class expressions with a runtime suffix that a file holds
PrefixSites(file) ==
    {k \in 1..Len(file.sites) :
        file.sites[k].syn \in RuntimeSuffixSyntaxes /\ file.sites[k].val # <<>>}
IsBaseKey(val, path) ==
    \E i \in 1..Len(dynamicBasePatterns) :
        /\ dynamicBasePatterns[i].normalizedKey = KeyOf(val)
        /\ \E l \in 1..Len(dynamicBasePatterns[i].locations) :
              dynamicBasePatterns[i].locations[l].filePath = path
ScriptFiles == {f \in 1..Len(atStart.files) : isJSFile(atStart.files[f].path)}

\* C24: after a scan, the normalized static prefix of every class expression
\* with a runtime suffix in a script file is a key of dynamicBasePatterns
\* with that file among its locations, and no location of a dynamic base is
\* a markup or server-fragment file.
C24_EveryPrefixIsBase ==
    ScanComplete =>
        /\ \A f \in ScriptFiles :
              \A k \in PrefixSites(atStart.files[f]) :
                  IsBaseKey(atStart.files[f].sites[k].val, atStart.files[f].path)
        /\ \A i \in 1..Len(dynamicBasePatterns) :
              \A l \in 1..Len(dynamicBasePatterns[i].locations) :
                  isJSFile(dynamicBasePatterns[i].locations[l].filePath)

(***************************************************************************)
(* C25                                                                     *)
(***************************************************************************)
\* a token belongs to a prefix ending in "-" when it starts with it, and to
\* any other prefix when it equals it or starts with it and a "-"
BelongsTo(token, prefix) ==
    IF prefix[Len(prefix)] = "-"
    THEN StartsWith(Chars[token], prefix)
    ELSE Chars[token] = prefix \/ StartsWith(Chars[token], prefix \o <<"-">>)
HasFamilyToken(val) ==
    \E i \in 1..Len(IncludedOf(val)) : \E j \in 1..Len(config.dynamicPrefixes) :
        BelongsTo(IncludedOf(val)[i], config.dynamicPrefixes[j])
Recorded(val) ==
    \E i \in 1..Len(occurrences) : occurrences[i].normalizedKey = KeyOf(val)
StaticSightings ==
    {s \in Sightings(atStart.files) :
        /\ ValueAt(atStart.files, s) # <<>>
        /\ ~isDynamicClassString(ValueAt(atStart.files, s))
        /\ Len(IncludedOf(ValueAt(atStart.files, s))) >= config.minClasses}
FabPrefix == <<"f", "a", "b">>

\* C25: with excludeDynamicPatterns on, no occurrence is recorded for a class
\* value that has a non-safelisted token of a dynamic prefix, and a static
\* value with enough tokens and no such token is recorded; "fab" and "fab-x"
\* belong to the prefix "fab" and "fabric-button" does not; an empty token
\* list or an empty prefix list excludes nothing.
C25_IconFamiliesExcluded ==
    /\ BelongsTo("fab", FabPrefix) /\ BelongsTo("fab-x", FabPrefix)
    /\ ~BelongsTo("fabric-button", FabPrefix)
    /\ ~containsDynamicPrefix(<<>>, config.dynamicPrefixes)
    /\ ScanComplete =>
          \A s \in StaticSightings :
              LET val == ValueAt(atStart.files, s)
              IN /\ (config.excludeDynamicPatterns /\ HasFamilyToken(val)) => ~Recorded(val)
                 /\ (config.excludeDynamicPatterns /\ ~HasFamilyToken(val)) => Recorded(val)
                 /\ config.dynamicPrefixes = <<>> => Recorded(val)
\* a scan with the default prefixes that met "flex fab-x" and recorded only
\* "fabric-button flex"
C25_Witness ==
    /\ ScanComplete
    /\ config.excludeDynamicPatterns
    /\ config.dynamicPrefixes # <<>>
    /\ \E s \in StaticSightings : ValueAt(atStart.files, s) = FabXFlex
    /\ Recorded(FabricFlex)
    /\ ~Recorded(FabXFlex)

(***************************************************************************)
(* C26                                                                     *)
(***************************************************************************)
\* the rules of the compiled stylesheets, file after file
AllRules(css) == Flatten([f \in 1..Len(css) |-> css[f].rules])
\* the declarations of the rules a token has in the compiled stylesheets, in
\* the order of the stylesheets; plainOnly leaves the pseudo-class and
\* media-scoped rules out
SheetDeclarations(css, token, plainOnly) ==
    LET own == SelectSeq(AllRules(css), LAMBDA r :
                   r.cls = token /\ Len(r.decls) > 0 /\ (plainOnly => r.variant = ""))
    IN Flatten([k \in 1..Len(own) |-> own[k].decls])
TokenDeclarations(css, token, plainOnly) ==
    IF SheetDeclarations(css, token, plainOnly) # <<>>
    THEN SheetDeclarations(css, token, plainOnly)
    ELSE parseUtilityClass(token)
Composed(css, classes, plainOnly) ==
    Dedupe(Flatten([k \in 1..Len(classes) |-> TokenDeclarations(css, classes[k], plainOnly)]))
RuleOf(mapping) ==
    SelectSeq(consolidatedCSS, LAMBDA r : r.cls = mapping.consolidated)

\* C26: the declaration list of the rule synthesized for a mapping is the
\* duplicate-free concatenation, in token order, of the declarations each
\* token has in the compiled stylesheets or, for a token without a rule
\* there, in the interpreter; a mapping whose tokens resolve to nothing has
\* no rule.  The rules of a token are read either as its plain class rules
\* or as all the rules of its class.
C26_RuleComposition ==
    MappingsApplied =>
        \A i \in 1..Len(mappings) :
            \E plainOnly \in BOOLEAN :
                LET decls == Composed(atStart.styles, mappings[i].classes, plainOnly)
                IN IF decls = <<>> THEN RuleOf(mappings[i]) = <<>>
                   ELSE /\ Len(RuleOf(mappings[i])) = 1
                        /\ RuleOf(mappings[i])[1].decls = decls

(***************************************************************************)
(* C27                                                                     *)
(***************************************************************************)
\* the synthetic names the artifacts hold
IsSyntheticName(token) == StartsWith(Chars[token], <<"c", "p", "-">>)
NamesInArtifacts ==
    UNION { UNION { {t \in Range(files[f].sites[k].val) : IsSyntheticName(t)} :
                    k \in 1..Len(files[f].sites) } :
            f \in 1..Len(files) }
NamesWithRule ==
    UNION { {styles[f].rules[k].cls : k \in 1..Len(styles[f].rules)} :
            f \in 1..Len(styles) }
RunEnded == pc \in {"done", "failed"}

\* C27: when an invocation has ended, every synthetic name that an artifact
\* holds has a rule of that name in a stylesheet of the build.
C27_EveryNameHasRule ==
    RunEnded => NamesInArtifacts \subseteq NamesWithRule

(***************************************************************************)
(* C28                                                                     *)
(***************************************************************************)
\* the fixed class values, in files of some kinds, made of the tokens of a
\* mapping when this invocation began
ValuesOf(mapping, kinds) ==
    {s \in Sightings(atStart.files) :
        /\ Ext[atStart.files[s[1]].path] \in kinds
        /\ ~isDynamicClassString(ValueAt(atStart.files, s))
        /\ Range(IncludedOf(ValueAt(atStart.files, s))) = TokenSet(mapping)}
NowNamed(s, mapping) ==
    /\ ValueAt(files, s) # ValueAt(atStart.files, s)
    /\ Head(ValueAt(files, s)) = mapping.consolidated
RunCompleted == pc = "done" /\ ~dryRun /\ Len(mappings) > 0

\* C28: with config.ssr, when a run that was no dry run has completed, the
\* fixed values of every mapping have the synthetic name in the markup and
\* server-fragment files and in the script files alike, or in none of them.
C28_SidesInStep ==
    (config.ssr /\ RunCompleted) =>
        \A i \in 1..Len(mappings) :
            LET both == ValuesOf(mappings[i], ServerKinds) \cup ValuesOf(mappings[i], ScriptKinds)
            IN \/ \A s \in both : NowNamed(s, mappings[i])
               \/ \A s \in both : ~NowNamed(s, mappings[i])

(***************************************************************************)
(* C29                                                                     *)
(***************************************************************************)
\* the source kind of a file, by its extension
KindOf(path) ==
    IF Ext[path] \in {"html", "htm"} THEN "html"
    ELSE IF Ext[path] = "rsc" THEN "rsc"
    ELSE "js"
\* what holds of one entry of the occurrence map
EntryInvariant(o) ==
    /\ o.normalizedKey = KeyOf(o.classString)
    /\ o.count >= 1
    /\ o.count = Len(o.locations)
    /\ o.sourceTypes = {KindOf(o.locations[l].filePath) : l \in 1..Len(o.locations)}
    /\ Len(o.classes) >= config.minClasses
    /\ o.classString = ValueAtLocation(o.locations[1])
    /\ o.classes = IncludedOf(ValueAtLocation(o.locations[1]))
    /\ o.excludedClasses = SafelistedOf(ValueAtLocation(o.locations[1]))
OccurrenceMapInvariant ==
    /\ \A i \in 1..Len(occurrences) : EntryInvariant(occurrences[i])
    /\ \A i, j \in 1..Len(occurrences) :
          occurrences[i].normalizedKey = occurrences[j].normalizedKey => i = j
\* a step of an invocation keeps every entry, with its key, its first
\* sighting and the locations it had, and only adds to its count
EntriesOnlyGrow ==
    \A i \in 1..Len(occurrences) :
        /\ i <= Len(occurrences')
        /\ occurrences'[i].normalizedKey = occurrences[i].normalizedKey
        /\ occurrences'[i].classString = occurrences[i].classString
        /\ occurrences'[i].classes = occurrences[i].classes
        /\ occurrences'[i].excludedClasses = occurrences[i].excludedClasses
        /\ occurrences'[i].count >= occurrences[i].count
        /\ SubSeq(occurrences'[i].locations, 1, occurrences[i].count)
              = occurrences[i].locations
        /\ occurrences[i].sourceTypes \subseteq occurrences'[i].sourceTypes

\* C29: during and after a scan every entry of the occurrence map has a key
\* of its own that is the normalized key of its class string, a count of at
\* least 1 that is the number of its locations, the source kinds of the
\* files of its locations, at least minClasses non-safelisted tokens, and
\* the class string, classes and safelisted classes of its first sighting;
\* until the next invocation begins, entries are only added or incremented.
C29_OccurrenceMap ==
    /\ []OccurrenceMapInvariant
    /\ [][pc # "done" => EntriesOnlyGrow]_vars
\* an entry seen a second time in another form, with another safelisted part
C29_Witness ==
    \E i \in 1..Len(occurrences) :
        /\ occurrences[i].count >= 2
        /\ Cardinality(occurrences[i].sourceTypes) = 2
        /\ \E l \in 2..occurrences[i].count :
              /\ ValueAtLocation(occurrences[i].locations[l]) # occurrences[i].classString
              /\ SafelistedOf(ValueAtLocation(occurrences[i].locations[l]))
                    # occurrences[i].excludedClasses

(***************************************************************************)
(* C30                                                                     *)
(***************************************************************************)
Returned == {c \in Calls : logCalls[c] = "returned"}
EntriesOf(lines) == {lines[k].call : k \in {n \in 1..Len(lines) : lines[n].kind = "entry"}}
\* the file begins with the one header it holds, every call that returned
\* with debug on has its entry in it, and without debug there is no file
LogFileComplete ==
    /\ logFile # <<>> =>
          /\ Head(logFile) = HeaderLine
          /\ \A k \in 2..Len(logFile) : logFile[k].kind = "entry"
    /\ debug => Returned \subseteq EntriesOf(logFile)
    /\ ~debug => logFile = <<>>
\* a file that exists is never initialised again: it keeps its lines
LogFileOnlyGrows ==
    logFile # <<>> =>
        /\ Len(logFile') >= Len(logFile)
        /\ SubSeq(logFile', 1, Len(logFile)) = logFile
\* every call ends in a return of its own or in the catch of writeToLog
NeverThrows ==
    \A c \in Calls :
        logCalls[c] \in {"idle", "writeFile", "wroteHeader", "appendFile", "returned", "caught"}

\* C30: for any interleaving of logger calls that are not awaited one by
\* one, the log file is initialised with its header once, before any entry,
\* no later initialisation removes an entry, every entry whose call returned
\* is in the file, no file is written without debug, and no call throws.
C30_LogInitRaceFree ==
    /\ []LogFileComplete
    /\ []NeverThrows
    /\ [][LogFileOnlyGrows]_vars
====
